---------------------------- MODULE Spec2Model ----------------------------
(***************************************************************************)
(* The request/response correlation bridge of the proxy server             *)
(* (packages/proxy-server/src/proxy-server.ts): one bridge instance with   *)
(* its /auth and /init handlers, the worker process that answers it        *)
(* (packages/local-api/src/echo.ts), a second bridge instance on the same  *)
(* Redis server, the two ReadyStore variants side by side, the environment *)
(* the readiness store is created in, and the JSON encoding of envelopes.  *)
(*                                                                         *)
(* The server runs on a single-threaded event loop: the code between two   *)
(* awaits of a handler runs atomically, and handlers interleave only at    *)
(* their awaits.  Each action below is one such run-to-the-next-await      *)
(* step of a handler, or the callback of a timer.                          *)
(*                                                                         *)
(* JavaScript values are represented by records; a JSON body is            *)
(* represented by its canonical JSON text.                                 *)
(***************************************************************************)
EXTENDS Integers, Sequences, FiniteSets, TLC

\* Bounds of the model.
MaxCalls == 2
MaxEvents == 1
MaxAuthCalls == 1
MaxInitCalls == 1
MaxDelivered == 2

\* awaitResponse's default timeoutMs.
DefaultTimeoutMs == 30000

InvokeCalls == 1..MaxCalls
EventCalls == 1..MaxEvents
AuthCalls == 1..MaxAuthCalls
InitCalls == 1..MaxInitCalls

\* Worker identities a caller may name.
Workers == {"w1", "w2"}
\* url.searchParams.get(..) || undefined
Missing == "undefined"

\* A generator that returns the same id at every call.
uuidv4_constant(k) == 1

\* uuidv4() is modelled by the index of the call that draws it: ids are
\* pairwise distinct.  0 is an id that no invoke of this instance drew.
uuidv4(k) == k
RequestIds == 0..MaxCalls

\* Hubs.
INSTANCE_ID == "inst-a"
RESPONSE_HUB == "response-inst-a"
SYSTEM_HUB == "system"
HUB_NAME == "proxyhub"
OtherResponseHub == "response-inst-b"

UserMessage == "azure.webpubsub.user.message"
Connected == "azure.webpubsub.sys.connected"

\* JSON bodies, by their text.
BodyHello == "{\"msg\":\"hello\"}"
BodyNull == "null"
BodyNone == ""
ErrMissingParams == "{\"error\":\"Missing required query params: clientId and path\"}"
ErrNotReady == "{\"error\":\"Client not ready\"}"
ErrPublish == "{\"error\":\"Failed to publish to PubSub\"}"
ErrTimeout == "{\"error\":\"Gateway Timeout\"}"
ErrUnauthorized == "{\"error\":\"Unauthorized\"}"
ErrClientIdRequired == "{\"error\":\"clientId is required\"}"
ErrForbidden == "{\"error\":\"Forbidden clientId\"}"
ErrMint == "{\"error\":\"Failed to mint access token\"}"
BodyOk == "{\"ok\":true}"
\* What Bun.serve answers when the fetch handler's promise rejects.
ErrUnhandled == "<unhandled rejection>"

VARIABLES
  readyStore,   \* which ReadyStore createReadyStore returned: "memory" | "redis"
  mem,          \* the memory store's Map: the clientIds mapped to true
  redisKeys,    \* the clientIds c whose key ready:c is set in Redis
  pending,      \* the keys of the pending Map
  timer,        \* per requestId, the timer awaitResponse armed
  promise,      \* per requestId, the promise awaitResponse returned
  settleLog,    \* per requestId, the calls of resolve / reject, in order
  removeLog,    \* per requestId, the code paths that deleted its entry, in order
  resolvedBy,   \* per requestId, the response payload that resolved its entry
  call,         \* per /invoke call, its position and locals
  sent,         \* per /invoke call, the envelopes it handed to publish
  ev,           \* per /events call, its position, request and last log line
  ALLOWED_CLIENT_IDS, \* the allow-list read from the environment at startup
  AUTH_TOKEN,   \* the API key read from the environment ("" when not set)
  auth,         \* per /auth call, its position, inputs and answer
  init,         \* per /init call, its position, inputs and answer
  worker,       \* the worker process: its entry point and its message handlers
  peer,         \* a second bridge instance: its store, pending map and one call
  variants,     \* the two ReadyStore variants driven by the same calls
  startup,      \* the environment createReadyStore ran in
  codec         \* an envelope, its JSON text and what parseJSON made of it

\* The state of one bridge instance's correlation bridge and readiness store.
serverVars == <<readyStore, mem, redisKeys, pending, timer, promise, settleLog,
                removeLog, resolvedBy, call, sent, ev>>
\* The access layer of the instance, the worker, the second instance, and
\* the pair of store variants.
auxVars == <<startup, codec>>
extVars == <<ALLOWED_CLIENT_IDS, AUTH_TOKEN, auth, init, worker, peer, variants,
             auxVars>>

vars == <<serverVars, extVars>>

-----------------------------------------------------------------------------
(* Payloads of /events requests *)

\* A parsed JSON object, by the fields handleEvents reads.  requestIdIsString,
\* statusIsNumber and clientIdIsString are the typeof tests; hasBody is
\* 'body' in data.
Obj(type, ridStr, rid, stNum, st, hasBody, body, cidStr, cid) ==
  [shape |-> "object", type |-> type,
   requestIdIsString |-> ridStr, requestId |-> rid,
   statusIsNumber |-> stNum, status |-> st,
   hasBody |-> hasBody, body |-> body,
   clientIdIsString |-> cidStr, clientId |-> cid]

NullValue == [Obj("", FALSE, 0, FALSE, 0, FALSE, BodyNone, FALSE, Missing)
                EXCEPT !.shape = "null"]
StringValue == [Obj("", FALSE, 0, FALSE, 0, FALSE, BodyNone, FALSE, Missing)
                EXCEPT !.shape = "string"]

ResponseObj(rid, stNum, st, hasBody, body) ==
  Obj("response", TRUE, rid, stNum, st, hasBody, body, FALSE, Missing)
InitObj(cidStr, cid) ==
  Obj("init", FALSE, 0, FALSE, 0, FALSE, BodyNone, cidStr, cid)

ResponseObjs ==
  { ResponseObj(rid, TRUE, st, TRUE, BodyHello) :
      rid \in RequestIds, st \in {200, 404} }
  \cup { ResponseObj(rid, FALSE, 0, TRUE, BodyHello) : rid \in RequestIds }
  \cup { ResponseObj(rid, TRUE, 200, FALSE, BodyNone) : rid \in RequestIds }
  \cup { [ResponseObj(1, TRUE, 200, TRUE, BodyHello)
            EXCEPT !.requestIdIsString = FALSE] }
InitObjs ==
  { InitObj(TRUE, w) : w \in Workers } \cup { InitObj(FALSE, Missing) }
OtherObjs ==
  { Obj("request", TRUE, 1, FALSE, 0, FALSE, BodyNone, FALSE, Missing) }

\* The raw text of an event's body: the JSON text of a value ("json"), the
\* JSON text of a string that itself holds JSON ("quoted"), or text that is
\* not JSON ("invalid").
Raw(enc, val) == [enc |-> enc, val |-> val]
RawTexts ==
  { Raw("json", v) : v \in ResponseObjs \cup InitObjs \cup OtherObjs \cup {NullValue} }
  \cup { Raw("quoted", ResponseObj(1, TRUE, 200, TRUE, BodyHello)),
         Raw("invalid", NullValue) }

\* parseJSON applied to the string req.text() returned: JSON.parse, and the
\* string itself when JSON.parse throws.
parseJSON(raw) ==
  IF raw.enc = "json" THEN raw.val ELSE StringValue

-----------------------------------------------------------------------------
(* Readiness store *)

\* The environment createReadyStore reads: READY_STORE, REDIS_URL, and
\* whether import('ioredis') and new Redis(..) succeed.
Configs ==
  [READY_STORE : {"memory", "redis"},
   REDIS_URL : {"", "redis://valkey:6379"},
   ioredis : BOOLEAN]

createReadyStore(cfg) ==
  IF cfg.READY_STORE = "redis" /\ cfg.REDIS_URL # "" /\ cfg.ioredis
  THEN "redis"
  ELSE "memory"

\* store.isReady(clientId) of the store in use, when the call succeeds.
isReady(clientId) ==
  IF readyStore = "redis" THEN clientId \in redisKeys ELSE clientId \in mem

\* setReady with the two arms of its `ready ? .. : ..` swapped.
setReady_swapped(clientId, ready) ==
  IF readyStore = "redis"
  THEN /\ redisKeys' = (IF ready THEN redisKeys \ {clientId}
                                 ELSE redisKeys \cup {clientId})
       /\ mem' = mem
  ELSE /\ mem' = (IF ready THEN mem \ {clientId} ELSE mem \cup {clientId})
       /\ redisKeys' = redisKeys

\* setReady of the Redis store writing to a Map of the process in place of the
\* Redis key.
setReady_localOnly(clientId, ready) ==
  /\ mem' = (IF ready THEN mem \cup {clientId} ELSE mem \ {clientId})
  /\ redisKeys' = redisKeys

\* store.setReady(clientId, ready) of the store in use, when the call succeeds.
setReady(clientId, ready) ==
  IF readyStore = "redis"
  THEN /\ redisKeys' = (IF ready THEN redisKeys \cup {clientId}
                                 ELSE redisKeys \ {clientId})
       /\ mem' = mem
  ELSE /\ mem' = (IF ready THEN mem \cup {clientId} ELSE mem \ {clientId})
       /\ redisKeys' = redisKeys

\* The outcomes a call on the store can have: the memory store never fails,
\* a Redis command may reject, and rejects when the Redis server is known to
\* be out of reach.
StoreOutcomes ==
  IF readyStore = "redis"
  THEN IF startup.reachable = "no" THEN {"error"} ELSE {"ok", "error"}
  ELSE {"ok"}

-----------------------------------------------------------------------------
(* Pending correlation map, timers and promises *)

NoTimer == [state |-> "none", ms |-> 0]
NoPromise == [state |-> "none", status |-> 0, body |-> BodyNone]

\* The effect of a promise's resolve / reject function: only a pending
\* promise changes.
Resolve(p, status, body) ==
  IF p.state = "pending"
  THEN [state |-> "resolved", status |-> status, body |-> body]
  ELSE p
Reject(p) ==
  IF p.state = "pending"
  THEN [state |-> "rejected", status |-> 0, body |-> "Gateway Timeout"]
  ELSE p

\* pending.delete(r), with the path that deleted an existing entry logged.
Delete(r, path) ==
  /\ pending' = pending \ {r}
  /\ removeLog' = [removeLog EXCEPT ![r] =
                     IF r \in pending THEN Append(@, path) ELSE @]

\* awaitResponse without its pending.set(requestId, ..).
awaitResponse_noRegister(r) ==
  /\ timer' = [timer EXCEPT ![r] = [state |-> "armed", ms |-> DefaultTimeoutMs]]
  /\ promise' = [promise EXCEPT ![r] = [NoPromise EXCEPT !.state = "pending"]]
  /\ UNCHANGED <<pending, settleLog, removeLog, resolvedBy>>

\* awaitResponse(requestId): arm the timer, register the entry.
awaitResponse(r) ==
  /\ timer' = [timer EXCEPT ![r] = [state |-> "armed", ms |-> DefaultTimeoutMs]]
  /\ pending' = pending \cup {r}
  /\ promise' = [promise EXCEPT ![r] = [NoPromise EXCEPT !.state = "pending"]]
  /\ UNCHANGED <<settleLog, removeLog, resolvedBy>>

\* The timer callback without its pending.delete(requestId).
timeoutCallback_noDelete(r) ==
  /\ timer' = [timer EXCEPT ![r].state = "fired"]
  /\ promise' = [promise EXCEPT ![r] = Reject(@)]
  /\ settleLog' = [settleLog EXCEPT ![r] = Append(@, "reject")]
  /\ UNCHANGED <<pending, removeLog, resolvedBy>>

\* The callback awaitResponse hands to setTimeout.
timeoutCallback(r) ==
  /\ timer' = [timer EXCEPT ![r].state = "fired"]
  /\ Delete(r, "timeout")
  /\ promise' = [promise EXCEPT ![r] = Reject(@)]
  /\ settleLog' = [settleLog EXCEPT ![r] = Append(@, "reject")]
  /\ UNCHANGED resolvedBy

\* A clearTimeout that cancels nothing.
clearTimeout_noop(t) == t

\* clearTimeout(t): an armed timer is cancelled, any other is left as it is.
clearTimeout(t) == IF t.state = "armed" THEN [t EXCEPT !.state = "cleared"] ELSE t

\* The cleanup without its clearTimeout(p.timer).
publishFailedCleanup_noClearTimeout(r) ==
  /\ Delete(r, "publishFailed")
  /\ UNCHANGED <<timer, promise, settleLog, resolvedBy>>

\* The cleanup without its pending.delete(requestId).
publishFailedCleanup_noDelete(r) ==
  /\ timer' = [timer EXCEPT ![r] = clearTimeout(@)]
  /\ UNCHANGED <<pending, removeLog, promise, settleLog, resolvedBy>>

\* handleInvoke's cleanup when publish threw.
publishFailedCleanup(r) ==
  /\ IF r \in pending
     THEN /\ timer' = [timer EXCEPT ![r] = clearTimeout(@)]
          /\ Delete(r, "publishFailed")
     ELSE UNCHANGED <<timer, pending, removeLog>>
  /\ UNCHANGED <<promise, settleLog, resolvedBy>>

\* The response branch without its clearTimeout(entry.timer).
resolvePending_noClearTimeout(data) ==
  LET r == data.requestId
      status == IF data.statusIsNumber THEN data.status ELSE 200
      body == IF data.hasBody THEN data.body ELSE BodyNull
  IN IF r \in pending
     THEN /\ Delete(r, "resolve")
          /\ promise' = [promise EXCEPT ![r] = Resolve(@, status, body)]
          /\ settleLog' = [settleLog EXCEPT ![r] = Append(@, "resolve")]
          /\ resolvedBy' = [resolvedBy EXCEPT ![r] = data]
          /\ UNCHANGED timer
     ELSE UNCHANGED <<timer, pending, removeLog, promise, settleLog, resolvedBy>>

\* The response branch without its pending.delete(requestId).
resolvePending_noDelete(data) ==
  LET r == data.requestId
      status == IF data.statusIsNumber THEN data.status ELSE 200
      body == IF data.hasBody THEN data.body ELSE BodyNull
  IN IF r \in pending
     THEN /\ timer' = [timer EXCEPT ![r] = clearTimeout(@)]
          /\ promise' = [promise EXCEPT ![r] = Resolve(@, status, body)]
          /\ settleLog' = [settleLog EXCEPT ![r] = Append(@, "resolve")]
          /\ resolvedBy' = [resolvedBy EXCEPT ![r] = data]
          /\ UNCHANGED <<pending, removeLog>>
     ELSE UNCHANGED <<timer, pending, removeLog, promise, settleLog, resolvedBy>>

\* The response branch looking the entry up by the wrong key: without a
\* match it takes the oldest entry of the map.
resolvePending_anyEntry(data) ==
  LET r == IF data.requestId \in pending \/ pending = {}
           THEN data.requestId
           ELSE CHOOSE x \in pending : \A y \in pending : x <= y
      status == IF data.statusIsNumber THEN data.status ELSE 200
      body == IF data.hasBody THEN data.body ELSE BodyNull
  IN IF r \in pending
     THEN /\ timer' = [timer EXCEPT ![r] = clearTimeout(@)]
          /\ Delete(r, "resolve")
          /\ promise' = [promise EXCEPT ![r] = Resolve(@, status, body)]
          /\ settleLog' = [settleLog EXCEPT ![r] = Append(@, "resolve")]
          /\ resolvedBy' = [resolvedBy EXCEPT ![r] = data]
     ELSE UNCHANGED <<timer, pending, removeLog, promise, settleLog, resolvedBy>>

\* The response branch re-creating the entry of a requestId it does not find.
resolvePending_reCreate(data) ==
  LET r == data.requestId
      status == IF data.statusIsNumber THEN data.status ELSE 200
      body == IF data.hasBody THEN data.body ELSE BodyNull
  IN IF r \in pending
     THEN /\ timer' = [timer EXCEPT ![r] = clearTimeout(@)]
          /\ Delete(r, "resolve")
          /\ promise' = [promise EXCEPT ![r] = Resolve(@, status, body)]
          /\ settleLog' = [settleLog EXCEPT ![r] = Append(@, "resolve")]
          /\ resolvedBy' = [resolvedBy EXCEPT ![r] = data]
     ELSE /\ pending' = pending \cup {r}
          /\ UNCHANGED <<timer, removeLog, promise, settleLog, resolvedBy>>

\* handleEvents' response branch for a payload that passed the type tests.
resolvePending(data) ==
  LET r == data.requestId
      status == IF data.statusIsNumber THEN data.status ELSE 200
      body == IF data.hasBody THEN data.body ELSE BodyNull
  IN IF r \in pending
     THEN /\ timer' = [timer EXCEPT ![r] = clearTimeout(@)]
          /\ Delete(r, "resolve")
          /\ promise' = [promise EXCEPT ![r] = Resolve(@, status, body)]
          /\ settleLog' = [settleLog EXCEPT ![r] = Append(@, "resolve")]
          /\ resolvedBy' = [resolvedBy EXCEPT ![r] = data]
     ELSE UNCHANGED <<timer, pending, removeLog, promise, settleLog, resolvedBy>>

-----------------------------------------------------------------------------
(* POST /invoke *)

IdleCall ==
  [pc |-> "idle", clientId |-> Missing, hasPath |-> FALSE, ready |-> FALSE,
   requestId |-> 0, publish |-> "none", status |-> 0, body |-> BodyNone]

\* return json(body, status)
Return(c, status, body) ==
  [c EXCEPT !.pc = "done", !.status = status, !.body = body]

\* publish sending the envelope a second time.
publish_twice(k, clientId, r) ==
  sent' = [sent EXCEPT ![k] =
             @ \o << [type |-> "request", to |-> clientId, requestId |-> r],
                     [type |-> "request", to |-> clientId, requestId |-> r] >>]

\* publish(clientId, message): wpsSystem.sendToUser(clientId, ..)
publish(k, clientId, r) ==
  sent' = [sent EXCEPT ![k] = Append(@, [type |-> "request", to |-> clientId,
                                         requestId |-> r])]

\* The parameter check with `!clientId` alone in place of
\* `!clientId || !path`.
handleInvoke_params_noPathCheck(k, clientId, hasPath) ==
  /\ call[k].pc = "idle"
  /\ call' = [call EXCEPT ![k] =
       IF clientId = Missing
       THEN Return([@ EXCEPT !.clientId = clientId, !.hasPath = hasPath],
                   400, ErrMissingParams)
       ELSE [@ EXCEPT !.pc = "isReady", !.clientId = clientId,
                      !.hasPath = hasPath]]
  /\ UNCHANGED <<readyStore, mem, redisKeys, pending, timer, promise,
                 settleLog, removeLog, resolvedBy, sent, ev>>
  /\ UNCHANGED extVars

\* handleInvoke up to `await readyStorePromise`: the parameter check.
handleInvoke_params(k, clientId, hasPath) ==
  /\ call[k].pc = "idle"
  /\ call' = [call EXCEPT ![k] =
       IF clientId = Missing \/ ~hasPath
       THEN Return([@ EXCEPT !.clientId = clientId, !.hasPath = hasPath],
                   400, ErrMissingParams)
       ELSE [@ EXCEPT !.pc = "isReady", !.clientId = clientId,
                      !.hasPath = hasPath]]
  /\ UNCHANGED <<readyStore, mem, redisKeys, pending, timer, promise,
                 settleLog, removeLog, resolvedBy, sent, ev>>
  /\ UNCHANGED extVars

\* The gate without its `if (!ready) return 409`.
readyGate_open(c, outcome, ready) ==
  IF outcome = "error"
  THEN Return(c, 500, ErrUnhandled)
  ELSE [c EXCEPT !.pc = "body", !.ready = ready]

\* What handleInvoke does with the answer of store.isReady(clientId).
readyGate(c, outcome, ready) ==
  IF outcome = "error"
  THEN Return(c, 500, ErrUnhandled)
  ELSE IF ~ready
       THEN Return([c EXCEPT !.ready = FALSE], 409, ErrNotReady)
       ELSE [c EXCEPT !.pc = "body", !.ready = TRUE]

\* `await store.isReady(clientId)` and the 409 gate.
handleInvoke_isReady(k, outcome) ==
  /\ call[k].pc = "isReady"
  /\ outcome \in StoreOutcomes
  /\ call' = [call EXCEPT ![k] = readyGate(@, outcome, isReady(@.clientId))]
  /\ UNCHANGED <<readyStore, mem, redisKeys, pending, timer, promise,
                 settleLog, removeLog, resolvedBy, sent, ev>>
  /\ UNCHANGED extVars

\* From the body having been read to `await publish(..)`: draw the
\* requestId, register the pending entry, start the publish.
handleInvoke_dispatch(k) ==
  /\ call[k].pc = "body"
  /\ LET r == uuidv4(k)
     IN /\ awaitResponse(r)
        /\ publish(k, call[k].clientId, r)
        /\ call' = [call EXCEPT ![k].pc = "publish", ![k].requestId = r]
  /\ UNCHANGED <<readyStore, mem, redisKeys, ev>>
  /\ UNCHANGED extVars

\* publish settled: on success go on to `await responsePromise`, on
\* failure clean up and answer 502.
handleInvoke_published(k, ok) ==
  /\ call[k].pc = "publish"
  /\ IF ok
     THEN /\ call' = [call EXCEPT ![k].pc = "response", ![k].publish = "ok"]
          /\ UNCHANGED <<pending, timer, promise, settleLog, removeLog,
                         resolvedBy>>
     ELSE /\ publishFailedCleanup(call[k].requestId)
          /\ call' = [call EXCEPT ![k] =
                        Return([@ EXCEPT !.publish = "failed"], 502, ErrPublish)]
  /\ UNCHANGED <<readyStore, mem, redisKeys, sent, ev>>
  /\ UNCHANGED extVars

\* The answer with json(response.body) in place of
\* json(response.body, response.status).
answer_defaultStatus(c, p) ==
  IF p.state = "resolved"
  THEN Return(c, 200, p.body)
  ELSE Return(c, 504, ErrTimeout)

\* What handleInvoke answers once responsePromise is settled.  json(..) runs
\* inside the try: `new Response(.., { status })` throws a RangeError for a
\* status that is neither 101 nor in 200..599, and the catch answers 504.
answer(c, p) ==
  IF p.state = "resolved" /\ (p.status = 101 \/ p.status \in 200..599)
  THEN Return(c, p.status, p.body)
  ELSE Return(c, 504, ErrTimeout)

\* `await responsePromise` resumes.
handleInvoke_response(k) ==
  /\ call[k].pc = "response"
  /\ promise[call[k].requestId].state \in {"resolved", "rejected"}
  /\ call' = [call EXCEPT ![k] = answer(@, promise[@.requestId])]
  /\ UNCHANGED <<readyStore, mem, redisKeys, pending, timer, promise,
                 settleLog, removeLog, resolvedBy, sent, ev>>
  /\ UNCHANGED extVars

\* The timer of requestId r fires.  When it fires while the call is still
\* awaiting publish(), reject() runs before `await responsePromise` has
\* attached a handler; the runs followed here are those in which the runtime
\* reports that rejection and the process keeps serving.
timerFires(r) ==
  /\ timer[r].state = "armed"
  /\ timeoutCallback(r)
  /\ UNCHANGED <<readyStore, mem, redisKeys, call, sent, ev>>
  /\ UNCHANGED extVars

-----------------------------------------------------------------------------
(* POST /events *)

\* The requests the transport (or anyone who can reach the webhook) posts.
EventReq(ceType, ceHub, ceSource, raw) ==
  [ceType |-> ceType, ceHub |-> ceHub, ceSource |-> ceSource, raw |-> raw]

SourceResponse == "/hubs/response-inst-a/client/c1"
SourceNoHub == "/client/c1"

SampleResponse == Raw("json", ResponseObj(1, TRUE, 200, TRUE, BodyHello))
SampleInit == Raw("json", InitObj(TRUE, "w1"))

EventRequests ==
  { EventReq(UserMessage, RESPONSE_HUB, "", raw) : raw \in RawTexts }
  \cup { EventReq(UserMessage, SYSTEM_HUB, "", raw) :
           raw \in { Raw("json", v) : v \in InitObjs \cup OtherObjs }
                   \cup {SampleResponse, Raw("invalid", NullValue)} }
  \cup { EventReq(UserMessage, "", src, SampleResponse) :
           src \in {SourceResponse, SourceNoHub} }
  \cup { EventReq(UserMessage, hub, "", raw) :
           hub \in {OtherResponseHub, HUB_NAME},
           raw \in {SampleResponse, SampleInit} }
  \cup { EventReq(Connected, hub, "", raw) :
           hub \in {RESPONSE_HUB, SYSTEM_HUB},
           raw \in {SampleResponse, SampleInit} }

\* The notices that a worker's connection has closed: the transport's
\* disconnected system event (which names the worker in its ce-userId header,
\* a header handleEvents does not read; the worker is carried in the payload
\* here) and a user message of type disconnect on the system hub.
DisconnectObj(w) ==
  Obj("disconnect", FALSE, 0, FALSE, 0, FALSE, BodyNone, TRUE, w)
DisconnectNotices ==
  { EventReq(ceType, SYSTEM_HUB, "", Raw("json", DisconnectObj(w))) :
      ceType \in {"azure.webpubsub.sys.disconnected", UserMessage},
      w \in Workers }

NoRequest == EventReq("", "", "", Raw("invalid", NullValue))
NoLog == [msg |-> "", requestId |-> 0, clientId |-> Missing]
IdleEvent ==
  [pc |-> "idle", req |-> NoRequest, log |-> NoLog, status |-> 0,
   body |-> BodyNone]

\* ceSource.split('/hubs/')[1].split('/')[0], or '' without a '/hubs/'.
hubFromSource(ceSource) ==
  IF ceSource = SourceResponse THEN RESPONSE_HUB ELSE ""

\* The hub with the response hub of another instance taken for this
\* instance's own.
hubOf_anyInstance(req) ==
  LET hub == IF req.ceHub # "" THEN req.ceHub ELSE hubFromSource(req.ceSource)
  IN IF hub = OtherResponseHub THEN RESPONSE_HUB ELSE hub

hubOf(req) == IF req.ceHub # "" THEN req.ceHub ELSE hubFromSource(req.ceSource)

\* The type tests of the two branches.
isResponse(data) ==
  data.shape = "object" /\ data.type = "response" /\ data.requestIdIsString
\* The init test without `typeof data.clientId === 'string'`.
isInit_noTypeofClientId(data) ==
  data.shape = "object" /\ data.type = "init"
isInit(data) ==
  data.shape = "object" /\ data.type = "init" /\ data.clientIdIsString

\* return new Response(null, { status: 200 })
Ack(e, log) ==
  [e EXCEPT !.pc = "done", !.req = NoRequest, !.log = log, !.status = 200,
            !.body = BodyNone]

\* handleEvents up to `await req.text()`.
handleEvents_receive(e, req) ==
  /\ ev[e].pc \in {"idle", "done"}
  /\ ev' = [ev EXCEPT ![e] = [IdleEvent EXCEPT !.pc = "text", !.req = req]]
  /\ UNCHANGED <<readyStore, mem, redisKeys, pending, timer, promise,
                 settleLog, removeLog, resolvedBy, call, sent>>
  /\ UNCHANGED extVars

\* The response branch: correlate the payload with a pending entry.
routeResponse(e) ==
  LET data == parseJSON(ev[e].req.raw)
  IN IF isResponse(data)
     THEN /\ resolvePending(data)
          /\ ev' = [ev EXCEPT ![e] = Ack(@,
                [msg |-> IF data.requestId \in pending
                         THEN "resolved pending response"
                         ELSE "no pending for requestId",
                 requestId |-> data.requestId, clientId |-> Missing])]
     ELSE /\ ev' = [ev EXCEPT ![e] = Ack(@,
                [NoLog EXCEPT !.msg = "non-response payload or missing requestId on response hub"])]
          /\ UNCHANGED <<pending, timer, promise, settleLog, removeLog,
                         resolvedBy>>

\* The system branch, up to `await readyStorePromise`.
routeSystem(e) ==
  LET data == parseJSON(ev[e].req.raw)
  IN /\ ev' = [ev EXCEPT ![e] =
                 IF isInit(data)
                 THEN [@ EXCEPT !.pc = "store"]
                 ELSE Ack(@, [NoLog EXCEPT !.msg = "system hub message"])]
     /\ UNCHANGED <<pending, timer, promise, settleLog, removeLog, resolvedBy>>

\* handleEvents from the text having been read: classify by ce-type and hub.
handleEvents_route(e) ==
  /\ ev[e].pc = "text"
  /\ LET req == ev[e].req
     IN IF req.ceType = UserMessage /\ hubOf(req) = RESPONSE_HUB
        THEN routeResponse(e)
        ELSE IF req.ceType = UserMessage /\ hubOf(req) = SYSTEM_HUB
             THEN routeSystem(e)
             ELSE /\ ev' = [ev EXCEPT ![e] = Ack(@, NoLog)]
                  /\ UNCHANGED <<pending, timer, promise, settleLog,
                                 removeLog, resolvedBy>>
  /\ UNCHANGED <<readyStore, mem, redisKeys, call, sent>>
  /\ UNCHANGED extVars

\* The system branch with setReady awaited outside the try: the rejection
\* leaves handleEvents and Bun.serve answers 500.
initFailed_uncaught(e, clientId) ==
  [e EXCEPT !.pc = "done", !.req = NoRequest, !.status = 500,
            !.body = ErrUnhandled,
            !.log = [msg |-> "", requestId |-> 0, clientId |-> clientId]]

\* The catch of the system branch, and the return after it.
initFailed(e, clientId) ==
  Ack(e, [msg |-> "failed to process system payload", requestId |-> 0,
          clientId |-> clientId])

\* `await store.setReady(data.clientId, true)` inside the try, and the return.
handleEvents_setReady(e, outcome) ==
  /\ ev[e].pc = "store"
  /\ outcome \in StoreOutcomes
  /\ LET clientId == parseJSON(ev[e].req.raw).clientId
     IN IF outcome = "ok"
        THEN /\ setReady(clientId, TRUE)
             /\ ev' = [ev EXCEPT ![e] = Ack(@,
                   [msg |-> "client init received; marked ready",
                    requestId |-> 0, clientId |-> clientId])]
        ELSE /\ UNCHANGED <<mem, redisKeys>>
             /\ ev' = [ev EXCEPT ![e] = initFailed(@, clientId)]
  /\ UNCHANGED <<readyStore, pending, timer, promise, settleLog, removeLog,
                 resolvedBy, call, sent>>
  /\ UNCHANGED extVars

-----------------------------------------------------------------------------
(* POST /auth and POST /init *)

\* The values of ALLOWED_CLIENT_IDS and AUTH_TOKEN a deployment may set, and
\* the x-api-key headers a caller may send ("" when the header is absent).
AllowLists == SUBSET Workers
AuthTokens == {"", "secret"}
ApiKeys == {"", "secret", "wrong"}

\* What getClientAccessToken was asked for: the hub of the service client,
\* the userId, the roles (a role is a permission on one group, or on every
\* group when it names none: group "*") and the lifetime of the token.
Credential(hub, userId, roles, minutes) ==
  [hub |-> hub, userId |-> userId, roles |-> roles,
   expirationTimeInMinutes |-> minutes]
NoCredential == Credential("", Missing, {}, 0)
IdleAuth ==
  [pc |-> "idle", key |-> "", clientId |-> Missing, status |-> 0,
   body |-> BodyNone, credential |-> NoCredential]
IdleInit ==
  [pc |-> "idle", clientId |-> Missing, status |-> 0, body |-> BodyNone]

verifyApiKey(key) ==
  IF AUTH_TOKEN = "" THEN TRUE ELSE key = AUTH_TOKEN

\* isClientAllowed without the test against the list.
isClientAllowed_noList(clientId) == TRUE

isClientAllowed(clientId) ==
  IF ALLOWED_CLIENT_IDS = {} THEN TRUE ELSE clientId \in ALLOWED_CLIENT_IDS

\* userId: `client:${clientId}`
userIdOf(clientId) == "client:" \o clientId

\* handleAuth up to `await svc.getClientAccessToken(..)`: the API key, the
\* clientId of the body ('' when the body has none or is not JSON) and the
\* allow-list.  Reading the body touches no state of the server.
handleAuth_check(a, key, clientId) ==
  /\ auth[a].pc \in {"idle", "done"}
  /\ auth' = [auth EXCEPT ![a] =
       LET c == [IdleAuth EXCEPT !.key = key, !.clientId = clientId]
       IN IF ~verifyApiKey(key) THEN Return(c, 401, ErrUnauthorized)
          ELSE IF clientId = Missing THEN Return(c, 400, ErrClientIdRequired)
          ELSE IF ~isClientAllowed(clientId) THEN Return(c, 403, ErrForbidden)
          ELSE [c EXCEPT !.pc = "token"]]
  /\ UNCHANGED <<auxVars, serverVars, ALLOWED_CLIENT_IDS, AUTH_TOKEN, init, worker,
                 peer, variants>>

\* getClientAccessToken settled: a token with a url, a token without one, or
\* a rejection.
handleAuth_token(a, outcome) ==
  /\ auth[a].pc = "token"
  /\ auth' = [auth EXCEPT ![a] =
       IF outcome = "url"
       THEN Return([@ EXCEPT !.credential =
                      Credential(SYSTEM_HUB, userIdOf(auth[a].clientId), {}, 60)],
                   200, BodyNone)
       ELSE Return(@, 502, ErrMint)]
  /\ UNCHANGED <<auxVars, serverVars, ALLOWED_CLIENT_IDS, AUTH_TOKEN, init, worker,
                 peer, variants>>

\* The handler makeAuthHandler returns: the clientId of the x-client-id
\* header, then getClientAccessToken on the hub of the configuration.  It
\* consults neither the API key nor the allow-list; a rejection of the token
\* call is a failure of the Effect.
authHandler(a, clientId, outcome) ==
  /\ auth[a].pc \in {"idle", "done"}
  /\ auth' = [auth EXCEPT ![a] =
       LET c == [IdleAuth EXCEPT !.clientId = clientId]
       IN IF clientId = Missing THEN Return(c, 400, ErrClientIdRequired)
          ELSE IF outcome = "reject" THEN Return(c, 500, ErrUnhandled)
          ELSE IF outcome = "nourl" THEN Return(c, 502, ErrMint)
          ELSE Return([c EXCEPT !.credential =
                         Credential(HUB_NAME, clientId,
                           { [role |-> "webpubsub.joinLeaveGroup",
                              group |-> HUB_NAME],
                             [role |-> "webpubsub.sendToGroup", group |-> "*"] },
                           60)],
                      200, BodyNone)]
  /\ UNCHANGED <<auxVars, serverVars, ALLOWED_CLIENT_IDS, AUTH_TOKEN, init, worker,
                 peer, variants>>

\* handleInit up to `await readyStorePromise`: the clientId of the body and
\* the allow-list.
handleInit_check(i, clientId) ==
  /\ init[i].pc \in {"idle", "done"}
  /\ init' = [init EXCEPT ![i] =
       LET c == [IdleInit EXCEPT !.clientId = clientId]
       IN IF clientId = Missing THEN Return(c, 400, ErrClientIdRequired)
          ELSE IF ~isClientAllowed(clientId) THEN Return(c, 403, ErrForbidden)
          ELSE [c EXCEPT !.pc = "store"]]
  /\ UNCHANGED <<auxVars, serverVars, ALLOWED_CLIENT_IDS, AUTH_TOKEN, auth, worker,
                 peer, variants>>

\* `await store.setReady(clientId, true)` and the answer.  The await is not
\* inside a try: a rejection leaves handleInit.
handleInit_setReady(i, outcome) ==
  /\ init[i].pc = "store"
  /\ outcome \in StoreOutcomes
  /\ IF outcome = "ok"
     THEN /\ setReady(init[i].clientId, TRUE)
          /\ init' = [init EXCEPT ![i] = Return(@, 200, BodyOk)]
     ELSE /\ UNCHANGED <<mem, redisKeys>>
          /\ init' = [init EXCEPT ![i] = Return(@, 500, ErrUnhandled)]
  /\ UNCHANGED <<readyStore, pending, timer, promise, settleLog, removeLog,
                 resolvedBy, call, sent, ev>>
  /\ UNCHANGED <<ALLOWED_CLIENT_IDS, AUTH_TOKEN, auth, worker, peer, variants,
                 auxVars>>

-----------------------------------------------------------------------------
(* The worker process *)

\* The worker has two entry points: start() receives through the
\* WebPubSubClient SDK ('server-message'), main() through a raw WebSocket
\* (onMessage).  Both share forwardToLocal.
WorkerEntries == {"start", "main"}
\* One run of the message handler per delivered message.
WorkerCalls == 1..MaxDelivered

\* A request envelope as the worker reads it: path is Missing when the
\* envelope has none.
RequestEnvelope(requestId, method, path) ==
  [type |-> "request", requestId |-> requestId, method |-> method,
   path |-> path]
RequestEnvelopes ==
  { RequestEnvelope(r, m, "/hello") : r \in 1..MaxDelivered, m \in {"GET", "POST"} }
  \cup { RequestEnvelope(1, "GET", Missing) }
NotARequest == [type |-> "notice", requestId |-> 0, method |-> "", path |-> Missing]

\* What the transport delivers: a data message with a JSON or a text payload
\* (text that is no JSON decodes to NotARequest and is flagged), an ack, the
\* connected notice, or a frame that is no JSON.
Frame(kind, dataType, valid, payload) ==
  [kind |-> kind, dataType |-> dataType, valid |-> valid, payload |-> payload]
DataFrames ==
  { Frame("message", dt, TRUE, p) :
      dt \in {"json", "text"}, p \in RequestEnvelopes \cup {NotARequest} }
  \cup { Frame("message", "text", FALSE, NotARequest) }
ControlFrames ==
  { Frame(kind, "", TRUE, NotARequest) : kind \in {"ack", "system"} }
  \cup { Frame("invalid", "", FALSE, NotARequest) }
NoFrame == Frame("", "", FALSE, NotARequest)

\* What the local service does with the call: an HTTP response, or f(url,..)
\* rejects.
LocalOutcomes ==
  { [kind |-> "response", status |-> st, body |-> BodyHello] : st \in {200, 404} }
  \cup { [kind |-> "error", status |-> 0, body |-> BodyNone] }
NoOutcome == [kind |-> "none", status |-> 0, body |-> BodyNone]
ErrLocal == "{\"error\":\"<message of the error>\"}"

IdleHandler ==
  [pc |-> "idle", frame |-> NoFrame, local |-> NoOutcome, out |-> <<>>,
   log |-> ""]
IdleWorker ==
  [entry |-> "start", conn |-> "connecting", announced |-> <<>>,
   on |-> [j \in WorkerCalls |-> IdleHandler]]

\* joinUrl(LOCAL_API_URL, path) calls path.startsWith: it throws when the
\* envelope has no path.
joinUrlThrows(path) == path = Missing

\* The envelope forwardToLocal returns once f(url, ..) has settled.
forwardToLocal(reqMsg, local) ==
  IF local.kind = "response"
  THEN [type |-> "response", requestId |-> reqMsg.requestId,
        status |-> local.status, body |-> local.body]
  ELSE [type |-> "response", requestId |-> reqMsg.requestId,
        status |-> 500, body |-> ErrLocal]

\* The 'connected' listener of start() sends the init event; ws.onopen of
\* main() joins the group named CLIENT_ID.
worker_connected ==
  /\ worker.conn = "connecting"
  /\ worker' = [worker EXCEPT !.conn = "connected",
       !.announced = IF worker.entry = "start"
                     THEN << [send |-> "sendEvent", name |-> "init",
                              hasType |-> FALSE, clientId |-> "w1"] >>
                     ELSE << [send |-> "joinGroup", name |-> "w1",
                              hasType |-> TRUE, clientId |-> "w1"] >>]
  /\ UNCHANGED <<auxVars, serverVars, ALLOWED_CLIENT_IDS, AUTH_TOKEN, auth, init, peer,
                 variants>>

\* The transport posts the event the 'connected' listener sent to /events of
\* the bridge, on the hub the worker is connected to.  The event carries
\* JSON.stringify({ clientId: CLIENT_ID }): an object without a type field.
\* How the transport labels and encodes it is its own affair: the ce-type is
\* that of a user event named as sent or that of a user message, the body
\* the JSON text of the object or of the string sendEvent was handed.
sendEvent(e, ceType, enc) ==
  /\ worker.conn = "connected"
  /\ worker.announced # <<>>
  /\ worker.announced[1].send = "sendEvent"
  /\ ceType \in {"azure.webpubsub.user." \o worker.announced[1].name, UserMessage}
  /\ handleEvents_receive(e,
       EventReq(ceType, SYSTEM_HUB, "",
         Raw(enc, Obj(IF worker.announced[1].hasType
                      THEN worker.announced[1].name ELSE "",
                      FALSE, 0, FALSE, 0, FALSE, BodyNone,
                      TRUE, worker.announced[1].clientId))))

\* The 'server-message' listener of start(): it parses the data of the
\* message and returns.
serverMessage(j, frame) ==
  /\ worker.entry = "start" /\ worker.conn = "connected"
  /\ worker.on[j].pc = "idle"
  /\ frame.kind = "message"
  /\ worker' = [worker EXCEPT !.on[j] =
       [IdleHandler EXCEPT !.pc = "done", !.frame = frame,
          !.log = IF frame.valid /\ frame.dataType = "text"
                  THEN "" ELSE "unhandled rejection: JSON.parse"]]
  /\ UNCHANGED <<auxVars, serverVars, ALLOWED_CLIENT_IDS, AUTH_TOKEN, auth, init, peer,
                 variants>>

\* onMessage of main() up to `await f(url, ..)` inside forwardToLocal.
onMessage_receive(j, frame) ==
  /\ worker.entry = "main" /\ worker.conn = "connected"
  /\ worker.on[j].pc = "idle"
  /\ worker' = [worker EXCEPT !.on[j] =
       LET h == [IdleHandler EXCEPT !.frame = frame]
       IN IF frame.kind = "invalid"
          THEN [h EXCEPT !.pc = "done", !.log = "failed to process message"]
          ELSE IF frame.kind = "system"
          THEN [h EXCEPT !.pc = "done", !.log = "connected"]
          ELSE IF frame.kind = "ack"
          THEN [h EXCEPT !.pc = "done", !.log = "ack"]
          ELSE IF frame.payload.type = "request"
          THEN IF joinUrlThrows(frame.payload.path)
               THEN [h EXCEPT !.pc = "done", !.log = "failed to process message"]
               ELSE [h EXCEPT !.pc = "fetch", !.log = "request received"]
          ELSE [h EXCEPT !.pc = "done", !.log = "non-request message ignored"]]
  /\ UNCHANGED <<auxVars, serverVars, ALLOWED_CLIENT_IDS, AUTH_TOKEN, auth, init, peer,
                 variants>>

\* f(url, ..) settled: forwardToLocal returns the envelope and onMessage
\* sends it to the group "server".
onMessage_respond(j, local) ==
  /\ worker.on[j].pc = "fetch"
  /\ worker' = [worker EXCEPT !.on[j] =
       [@ EXCEPT !.pc = "done", !.local = local, !.log = "sending response",
                 !.out = << forwardToLocal(worker.on[j].frame.payload, local) >>]]
  /\ UNCHANGED <<auxVars, serverVars, ALLOWED_CLIENT_IDS, AUTH_TOKEN, auth, init, peer,
                 variants>>

-----------------------------------------------------------------------------
(* A second bridge instance *)

\* Instance B runs the same program in another process: its own
\* createReadyStore, its own Map when that returned the memory store, and the
\* same Redis keys as instance A when both returned the Redis store.
\* Its pending map is its own as well; `handled` is the last /events request
\* it handled (the requestId of the payload, the hub, whether it found an
\* entry on its own response hub).
IdlePeer ==
  [store |-> "memory", mem |-> {}, call |-> IdleCall, pending |-> {},
   handled |-> [requestId |-> 0, hub |-> "", held |-> FALSE]]

\* store.isReady(clientId) on instance B, when the call succeeds.
peerIsReady(clientId) ==
  IF peer.store = "redis" THEN clientId \in redisKeys ELSE clientId \in peer.mem

PeerStoreOutcomes == IF peer.store = "redis" THEN {"ok", "error"} ELSE {"ok"}

\* handleInvoke on instance B up to `await readyStorePromise`.
peer_handleInvoke_params(clientId, hasPath) ==
  /\ peer.call.pc \in {"idle", "done"}
  /\ peer' = [peer EXCEPT !.call =
       IF clientId = Missing \/ ~hasPath
       THEN Return([IdleCall EXCEPT !.clientId = clientId, !.hasPath = hasPath],
                   400, ErrMissingParams)
       ELSE [IdleCall EXCEPT !.pc = "isReady", !.clientId = clientId,
                             !.hasPath = hasPath]]
  /\ UNCHANGED <<auxVars, serverVars, ALLOWED_CLIENT_IDS, AUTH_TOKEN, auth, init,
                 worker, variants>>

\* `await store.isReady(clientId)` and the 409 gate on instance B.
peer_handleInvoke_isReady(outcome) ==
  /\ peer.call.pc = "isReady"
  /\ outcome \in PeerStoreOutcomes
  /\ peer' = [peer EXCEPT !.call =
                readyGate(@, outcome, peerIsReady(peer.call.clientId))]
  /\ UNCHANGED <<auxVars, serverVars, ALLOWED_CLIENT_IDS, AUTH_TOKEN, auth, init,
                 worker, variants>>

\* handleInvoke on instance B from the body having been read: B draws its
\* own requestId and registers the entry in its own map.  (B's publish and
\* B's timer are left out: the entry stays until a response resolves it.)
peer_handleInvoke_dispatch ==
  /\ peer.call.pc = "body"
  /\ peer' = [peer EXCEPT !.call = [@ EXCEPT !.pc = "response",
                                               !.requestId = uuidv4(MaxCalls + 1),
                                               !.publish = "ok"],
                          !.pending = @ \cup {uuidv4(MaxCalls + 1)}]
  /\ UNCHANGED <<auxVars, serverVars, ALLOWED_CLIENT_IDS, AUTH_TOKEN, auth, init,
                 worker, variants>>

\* handleEvents on instance B, whose RESPONSE_HUB is OtherResponseHub: the
\* response branch looks the requestId up in B's map, and the call that
\* waits on a resolved entry answers with it.
peer_handleEvents(req) ==
  /\ LET data == parseJSON(req.raw)
         found == /\ req.ceType = UserMessage /\ hubOf(req) = OtherResponseHub
                  /\ isResponse(data)
                  /\ data.requestId \in peer.pending
     IN peer' = [peer EXCEPT
          !.pending = IF found THEN @ \ {data.requestId} ELSE @,
          !.call = IF found
                   THEN answer(@, Resolve([NoPromise EXCEPT !.state = "pending"],
                                 IF data.statusIsNumber THEN data.status ELSE 200,
                                 IF data.hasBody THEN data.body ELSE BodyNull))
                   ELSE @,
          !.handled = [requestId |-> IF isResponse(data) THEN data.requestId ELSE 0,
                       hub |-> hubOf(req), held |-> found]]
  /\ UNCHANGED <<auxVars, serverVars, ALLOWED_CLIENT_IDS, AUTH_TOKEN, auth, init,
                 worker, variants>>

-----------------------------------------------------------------------------
(* The two ReadyStore variants *)

\* The answer of GET for a key that is not set.
Nil == "nil"

\* `ready:${id}`
key(id) == "ready:" \o id

ReadyKeys == {key(id) : id \in Workers}

\* Boolean(value) of a GET reply: a string other than '' is truthy.
Boolean(value) == value # Nil /\ value # ""

\* The memory variant on a Map m, represented by the set of its keys (every
\* entry has the value true).
memSetReady(m, clientId, ready) ==
  IF ready THEN m \cup {clientId} ELSE m \ {clientId}

memIsReady(m, clientId) == clientId \in m

\* The Redis variant with DEL replaced by SET ready:<id> '0'.
redisSetReady_zero(r, clientId, ready) ==
  IF ready THEN [r EXCEPT ![key(clientId)] = "1"]
           ELSE [r EXCEPT ![key(clientId)] = "0"]

\* The Redis variant on a keyspace r, when the command completes.
redisSetReady(r, clientId, ready) ==
  IF ready THEN [r EXCEPT ![key(clientId)] = "1"]
           ELSE [r EXCEPT ![key(clientId)] = Nil]

redisIsReady(r, clientId) == Boolean(r[key(clientId)])

NoResult == [w |-> Missing, last |-> "never", memory |-> FALSE,
             redis |-> FALSE, rejected |-> FALSE]

\* One instance of each variant, both new, with the history of the calls made
\* on them: last[w] is the latest setReady(w, ..) argument, failed tells
\* that a Redis command rejected, result is the latest isReady call.
IdleVariants ==
  [mem    |-> {},
   redis  |-> [k \in ReadyKeys |-> Nil],
   last   |-> [w \in Workers |-> "never"],
   failed |-> FALSE,
   result |-> NoResult]

\* The same setReady(clientId, ready) on both variants.
both_setReady(clientId, ready, outcome) ==
  /\ variants' =
       [variants EXCEPT
          !.mem = memSetReady(@, clientId, ready),
          !.redis = IF outcome = "ok" THEN redisSetReady(@, clientId, ready)
                                      ELSE @,
          !.last[clientId] = IF ready THEN "true" ELSE "false",
          !.failed = @ \/ outcome = "error"]
  /\ UNCHANGED <<auxVars, serverVars, ALLOWED_CLIENT_IDS, AUTH_TOKEN, auth, init,
                 worker, peer>>

\* The same isReady(clientId) on both variants.
both_isReady(clientId, outcome) ==
  /\ variants' =
       [variants EXCEPT
          !.result = [w        |-> clientId,
                      last     |-> variants.last[clientId],
                      memory   |-> memIsReady(variants.mem, clientId),
                      redis    |-> IF outcome = "ok"
                                   THEN redisIsReady(variants.redis, clientId)
                                   ELSE FALSE,
                      rejected |-> outcome = "error"],
          !.failed = @ \/ outcome = "error"]
  /\ UNCHANGED <<auxVars, serverVars, ALLOWED_CLIENT_IDS, AUTH_TOKEN, auth, init,
                 worker, peer>>

-----------------------------------------------------------------------------
(* Envelope encoding *)

\* A JSON text is a sequence of pieces: the structural characters
\* { } : , the quote and the backslash, each a piece of its own, and between
\* them runs of other characters (letters, digits), each run one piece.
Quote == "\""
Backslash == "\\"

\* JavaScript values, by kind t: null, undefined, a boolean b, a number n, a
\* string s (its pieces), an object f (its members [k, v] in insertion order).
JValue(t, b, n, str, f) == [t |-> t, b |-> b, n |-> n, s |-> str, f |-> f]
JNull == JValue("null", FALSE, 0, <<>>, <<>>)
JBool(b) == JValue("bool", b, 0, <<>>, <<>>)
JNum(n) == JValue("num", FALSE, n, <<>>, <<>>)
JStr(str) == JValue("str", FALSE, 0, str, <<>>)
JObj(f) == JValue("obj", FALSE, 0, <<>>, f)
Member(k, v) == [k |-> <<k>>, v |-> v]

\* The numbers whose literals the parser knows.
NumberLiterals == 0..599

\* The characters of a string between the quotes of its literal, written
\* without the backslash in front of a quote or a backslash.
escape_none(str) == str

\* The characters of a string between the quotes of its literal.
RECURSIVE escape(_)
escape(str) ==
  IF str = <<>> THEN <<>>
  ELSE (IF Head(str) \in {Quote, Backslash} THEN <<Backslash, Head(str)>>
                                            ELSE <<Head(str)>>)
       \o escape(Tail(str))

\* JSON.stringify(value) without indentation; a member whose value is
\* undefined is left out.
RECURSIVE JSON_stringify(_)
RECURSIVE stringifyMembers(_, _, _)
JSON_stringify(v) ==
  CASE v.t = "null" -> <<"null">>
    [] v.t = "bool" -> <<IF v.b THEN "true" ELSE "false">>
    [] v.t = "num" -> <<ToString(v.n)>>
    [] v.t = "str" -> <<Quote>> \o escape(v.s) \o <<Quote>>
    [] v.t = "obj" -> <<"{">> \o stringifyMembers(v.f, 1, TRUE) \o <<"}">>
stringifyMembers(f, i, first) ==
  IF i > Len(f) THEN <<>>
  ELSE IF f[i].v.t = "undefined" THEN stringifyMembers(f, i + 1, first)
  ELSE (IF first THEN <<>> ELSE <<",">>)
       \o <<Quote>> \o escape(f[i].k) \o <<Quote, ":">>
       \o JSON_stringify(f[i].v)
       \o stringifyMembers(f, i + 1, FALSE)

\* The result of parsing from a position: the value and the position after
\* it, or a failure.
Parsed(v, next) == [ok |-> TRUE, val |-> v, next |-> next]
SyntaxError == [ok |-> FALSE, val |-> JNull, next |-> 0]

\* The string literal whose opening quote is before position i.
RECURSIVE scanString(_, _, _)
scanString(txt, i, acc) ==
  IF i > Len(txt) THEN SyntaxError
  ELSE IF txt[i] = Quote THEN Parsed(JStr(acc), i + 1)
  ELSE IF txt[i] = Backslash
       THEN IF i + 1 <= Len(txt) /\ txt[i + 1] \in {Quote, Backslash}
            THEN scanString(txt, i + 2, Append(acc, txt[i + 1]))
            ELSE SyntaxError
  ELSE scanString(txt, i + 1, Append(acc, txt[i]))

\* The JSON value that starts at position i, and the members of an object
\* from position i on.
RECURSIVE parseValue(_, _)
RECURSIVE parseMembers(_, _, _)
parseValue(txt, i) ==
  IF i > Len(txt) THEN SyntaxError
  ELSE IF txt[i] = "null" THEN Parsed(JNull, i + 1)
  ELSE IF txt[i] \in {"true", "false"} THEN Parsed(JBool(txt[i] = "true"), i + 1)
  ELSE IF txt[i] = Quote THEN scanString(txt, i + 1, <<>>)
  ELSE IF txt[i] = "{"
       THEN IF i + 1 <= Len(txt) /\ txt[i + 1] = "}"
            THEN Parsed(JObj(<<>>), i + 2)
            ELSE parseMembers(txt, i + 1, <<>>)
  ELSE IF \E n \in NumberLiterals : ToString(n) = txt[i]
       THEN Parsed(JNum(CHOOSE n \in NumberLiterals : ToString(n) = txt[i]), i + 1)
  ELSE SyntaxError
parseMembers(txt, i, acc) ==
  IF i > Len(txt) \/ txt[i] # Quote THEN SyntaxError
  ELSE LET k == scanString(txt, i + 1, <<>>)
       IN IF ~k.ok \/ k.next > Len(txt) \/ txt[k.next] # ":" THEN SyntaxError
          ELSE LET v == parseValue(txt, k.next + 1)
                   f == Append(acc, [k |-> k.val.s, v |-> v.val])
               IN IF ~v.ok \/ v.next > Len(txt) THEN SyntaxError
                  ELSE IF txt[v.next] = "," THEN parseMembers(txt, v.next + 1, f)
                  ELSE IF txt[v.next] = "}" THEN Parsed(JObj(f), v.next + 1)
                  ELSE SyntaxError

\* JSON.parse(text): the value when the whole text is one JSON value, a
\* SyntaxError otherwise.
JSON_parse(txt) ==
  LET r == parseValue(txt, 1)
  IN IF r.ok /\ r.next = Len(txt) + 1 THEN r ELSE SyntaxError

\* parseJSON(payload) on a JavaScript value: null, undefined and objects are
\* returned as they are, a string is parsed and returned as it is when
\* JSON.parse throws, anything else is returned as it is.
parseJSONValue(payload) ==
  IF payload.t \in {"null", "undefined", "obj"} THEN payload
  ELSE IF payload.t = "str"
       THEN LET r == JSON_parse(payload.s)
            IN IF r.ok THEN r.val ELSE payload
  ELSE payload

\* The bodies an envelope carries: what req.json(), resp.json() or
\* parseJSON(text) returned.
JsonBodies ==
  { JNull, JNum(0), JBool(TRUE), JStr(<<"hello">>),
    JStr(<<"say ", Quote, "hi", Quote, " ", Backslash, "n">>),
    JStr(<<"{", Quote, "a", Quote, ":", "1", "}">>),
    JObj(<<>>),
    JObj(<< Member("msg", JStr(<<"hello">>)) >>),
    JObj(<< Member("error", JStr(<<"fetch failed">>)),
            Member("detail", JObj(<< Member("code", JNum(500)) >>)) >>) }

\* The message handleInvoke builds, and the one forwardToLocal returns.
RequestEnvelopeValue(requestId, method, path, body) ==
  JObj(<< Member("type", JStr(<<"request">>)),
          Member("requestId", JStr(requestId)),
          Member("method", JStr(<<method>>)),
          Member("path", JStr(path)),
          Member("body", body) >>)
ResponseEnvelopeValue(requestId, status, body) ==
  JObj(<< Member("type", JStr(<<"response">>)),
          Member("requestId", JStr(requestId)),
          Member("status", JNum(status)),
          Member("body", body) >>)

Envelopes ==
  { RequestEnvelopeValue(<<r>>, m, p, b) :
      r \in {"id-1", "id-2"}, m \in {"GET", "POST"},
      p \in {<<"/hello">>, <<"/q?x=", Quote, "1", Quote>>}, b \in JsonBodies }
  \cup { ResponseEnvelopeValue(<<r>>, st, b) :
           r \in {"id-1", "id-2"}, st \in {200, 404, 500}, b \in JsonBodies }

IdleCodec == [pc |-> "idle", e |-> JNull, text |-> <<>>, decoded |-> JNull]

\* JSON.stringify(data) as publish (and the worker's send) applies it.
codec_stringify(e) ==
  /\ codec.pc = "idle"
  /\ codec' = [codec EXCEPT !.pc = "encoded", !.e = e,
                            !.text = JSON_stringify(e)]
  /\ UNCHANGED <<serverVars, ALLOWED_CLIENT_IDS, AUTH_TOKEN, auth, init,
                 worker, peer, variants, startup>>

\* parseJSON applied to the text.
codec_parseJSON ==
  /\ codec.pc = "encoded"
  /\ codec' = [codec EXCEPT !.pc = "decoded",
                            !.decoded = parseJSONValue(JStr(codec.text))]
  /\ UNCHANGED <<serverVars, ALLOWED_CLIENT_IDS, AUTH_TOKEN, auth, init,
                 worker, peer, variants, startup>>

\* parseJSON applied to an object that is already structured.
codec_parseJSON_object(e) ==
  /\ codec.pc = "idle"
  /\ codec' = [codec EXCEPT !.pc = "passed", !.e = e,
                            !.decoded = parseJSONValue(e)]
  /\ UNCHANGED <<serverVars, ALLOWED_CLIENT_IDS, AUTH_TOKEN, auth, init,
                 worker, peer, variants, startup>>

-----------------------------------------------------------------------------
(* Startup *)

\* The environment of createReadyStore together with the state of the Redis
\* server while the process runs: `reachable` tells whether a connection to
\* REDIS_URL can be made ("unknown": either).  new Redis(url) connects in the
\* background and returns whether or not the server answers;
\* createReadyStore does not read `reachable`.
StartupConfigs ==
  [READY_STORE : {"memory", "redis"},
   REDIS_URL : {"", "redis://valkey:6379"},
   ioredis : BOOLEAN,
   reachable : {"yes", "no"}]

IdleStartup ==
  [READY_STORE |-> "memory", REDIS_URL |-> "", ioredis |-> FALSE,
   reachable |-> "unknown"]

-----------------------------------------------------------------------------
(* The server *)

\* The correlation bridge and the readiness store after startup.
ServerInit ==
  /\ \E cfg \in Configs : readyStore = createReadyStore(cfg)
  /\ mem = {}
  /\ redisKeys = {}
  /\ pending = {}
  /\ timer = [r \in InvokeCalls |-> NoTimer]
  /\ promise = [r \in InvokeCalls |-> NoPromise]
  /\ settleLog = [r \in InvokeCalls |-> <<>>]
  /\ removeLog = [r \in InvokeCalls |-> <<>>]
  /\ resolvedBy = [r \in InvokeCalls |-> NullValue]
  /\ call = [k \in InvokeCalls |-> IdleCall]
  /\ sent = [k \in InvokeCalls |-> <<>>]
  /\ ev = [e \in EventCalls |-> IdleEvent]

\* No /auth or /init call in flight.
AccessIdle ==
  /\ auth = [a \in AuthCalls |-> IdleAuth]
  /\ init = [i \in InitCalls |-> IdleInit]

\* Nothing recorded about the startup environment, no envelope being coded.
AuxIdle ==
  /\ startup = IdleStartup
  /\ codec = IdleCodec

Init ==
  /\ ServerInit
  /\ ALLOWED_CLIENT_IDS = {}
  /\ AUTH_TOKEN = ""
  /\ AccessIdle
  /\ worker = IdleWorker
  /\ peer = IdlePeer
  /\ variants = IdleVariants
  /\ AuxIdle

\* The steps of the server, with the /events requests drawn from `requests`.
NextWith(requests) ==
  \/ \E k \in InvokeCalls, clientId \in Workers \cup {Missing}, hasPath \in BOOLEAN :
       handleInvoke_params(k, clientId, hasPath)
  \/ \E k \in InvokeCalls, outcome \in {"ok", "error"} :
       handleInvoke_isReady(k, outcome)
  \/ \E k \in InvokeCalls : handleInvoke_dispatch(k)
  \/ \E k \in InvokeCalls, ok \in BOOLEAN : handleInvoke_published(k, ok)
  \/ \E k \in InvokeCalls : handleInvoke_response(k)
  \/ \E r \in InvokeCalls : timerFires(r)
  \/ \E e \in EventCalls, req \in requests : handleEvents_receive(e, req)
  \/ \E e \in EventCalls : handleEvents_route(e)
  \/ \E e \in EventCalls, outcome \in {"ok", "error"} :
       handleEvents_setReady(e, outcome)

Next == NextWith(EventRequests)

Spec == Init /\ [][Next]_vars

\* The requests that reach both branches of handleEvents: the response
\* payloads on the response hub and the init announcements on the system hub.
CoreEventRequests ==
  { EventReq(UserMessage, RESPONSE_HUB, "", Raw("json", v)) : v \in ResponseObjs }
  \cup { EventReq(UserMessage, SYSTEM_HUB, "", Raw("json", v)) : v \in InitObjs }

\* The server under the core requests, with the scheduling the runtime
\* guarantees: the event loop runs the continuation of a settled promise,
\* and an armed timer that is not cleared fires when its delay has passed.
FairSpec ==
  /\ Init /\ [][NextWith(CoreEventRequests)]_vars
  /\ \A k \in InvokeCalls : WF_vars(handleInvoke_response(k))
  /\ \A r \in InvokeCalls : WF_vars(timerFires(r))

\* The core requests and response envelopes whose status is a number that
\* is not the status of a final HTTP response: 100 (Continue) and 700.
StatusEventRequests ==
  CoreEventRequests
  \cup { EventReq(UserMessage, RESPONSE_HUB, "",
                  Raw("json", ResponseObj(rid, TRUE, st, TRUE, BodyHello))) :
           rid \in RequestIds, st \in {100, 700} }

StatusSpec == Init /\ [][NextWith(StatusEventRequests)]_vars

\* The access issuer alone, under every allow-list and API key a deployment
\* may set.
AuthInit ==
  /\ ServerInit
  /\ ALLOWED_CLIENT_IDS \in AllowLists
  /\ AUTH_TOKEN \in AuthTokens
  /\ AccessIdle
  /\ worker = IdleWorker
  /\ peer = IdlePeer
  /\ variants = IdleVariants
  /\ AuxIdle

AuthNext ==
  \/ \E a \in AuthCalls, apiKey \in ApiKeys, clientId \in Workers \cup {Missing} :
       handleAuth_check(a, apiKey, clientId)
  \/ \E a \in AuthCalls, outcome \in {"url", "nourl", "reject"} :
       handleAuth_token(a, outcome)

AuthSpec == AuthInit /\ [][AuthNext]_vars

\* The readiness gate: /init, the init announcements of the system hub and
\* /invoke up to its readiness check, under every allow-list.
GateEventRequests ==
  { EventReq(UserMessage, SYSTEM_HUB, "", Raw("json", v)) : v \in InitObjs }

GateInit ==
  /\ ServerInit
  /\ ALLOWED_CLIENT_IDS \in AllowLists
  /\ AUTH_TOKEN = ""
  /\ AccessIdle
  /\ worker = IdleWorker
  /\ peer = IdlePeer
  /\ variants = IdleVariants
  /\ AuxIdle

GateNext ==
  \/ \E i \in InitCalls, clientId \in Workers \cup {Missing} :
       handleInit_check(i, clientId)
  \/ \E i \in InitCalls, outcome \in {"ok", "error"} :
       handleInit_setReady(i, outcome)
  \/ \E e \in EventCalls, req \in GateEventRequests :
       handleEvents_receive(e, req)
  \/ \E e \in EventCalls : handleEvents_route(e)
  \/ \E e \in EventCalls, outcome \in {"ok", "error"} :
       handleEvents_setReady(e, outcome)
  \/ \E k \in InvokeCalls, clientId \in Workers :
       handleInvoke_params(k, clientId, TRUE)
  \/ \E k \in InvokeCalls, outcome \in {"ok", "error"} :
       handleInvoke_isReady(k, outcome)

GateSpec == GateInit /\ [][GateNext]_vars

\* The worker process alone, started through either entry point.
WorkerInit ==
  /\ ServerInit
  /\ ALLOWED_CLIENT_IDS = {}
  /\ AUTH_TOKEN = ""
  /\ AccessIdle
  /\ \E entry \in WorkerEntries : worker = [IdleWorker EXCEPT !.entry = entry]
  /\ peer = IdlePeer
  /\ variants = IdleVariants
  /\ AuxIdle

WorkerNext ==
  \/ worker_connected
  \/ \E j \in WorkerCalls, frame \in DataFrames : serverMessage(j, frame)
  \/ \E j \in WorkerCalls, frame \in DataFrames \cup ControlFrames :
       onMessage_receive(j, frame)
  \/ \E j \in WorkerCalls, local \in LocalOutcomes : onMessage_respond(j, local)

WorkerSpec == WorkerInit /\ [][WorkerNext]_vars

\* The worker with the scheduling its runtime guarantees: the local call
\* settles (the service answers, or fetch fails) and the handler resumes.
WorkerFairSpec ==
  /\ WorkerInit /\ [][WorkerNext]_vars
  /\ WF_vars(worker_connected)
  /\ \A j \in WorkerCalls :
       WF_vars(\E local \in LocalOutcomes : onMessage_respond(j, local))

\* Two bridge instances: A serves /init and the init announcements, B serves
\* /invoke up to its readiness check.  Each ran createReadyStore on its own.
SharedInit ==
  /\ ServerInit
  /\ ALLOWED_CLIENT_IDS = {}
  /\ AUTH_TOKEN = ""
  /\ AccessIdle
  /\ worker = IdleWorker
  /\ \E cfg \in Configs : peer = [IdlePeer EXCEPT !.store = createReadyStore(cfg)]
  /\ variants = IdleVariants
  /\ AuxIdle

SharedNext ==
  \/ \E i \in InitCalls, clientId \in Workers \cup {Missing} :
       handleInit_check(i, clientId)
  \/ \E i \in InitCalls, outcome \in {"ok", "error"} :
       handleInit_setReady(i, outcome)
  \/ \E e \in EventCalls, req \in GateEventRequests :
       handleEvents_receive(e, req)
  \/ \E e \in EventCalls : handleEvents_route(e)
  \/ \E e \in EventCalls, outcome \in {"ok", "error"} :
       handleEvents_setReady(e, outcome)
  \/ \E clientId \in Workers \cup {Missing}, hasPath \in BOOLEAN :
       peer_handleInvoke_params(clientId, hasPath)
  \/ \E outcome \in {"ok", "error"} : peer_handleInvoke_isReady(outcome)

SharedSpec == SharedInit /\ [][SharedNext]_vars

\* The two variants of createReadyStore, each used by one instance alone.
VariantsInit == Init

VariantsNext ==
  \/ \E clientId \in Workers, ready \in BOOLEAN, outcome \in {"ok", "error"} :
       both_setReady(clientId, ready, outcome)
  \/ \E clientId \in Workers, outcome \in {"ok", "error"} :
       both_isReady(clientId, outcome)

VariantsSpec == VariantsInit /\ [][VariantsNext]_vars

\* The server started under every environment, the Redis server staying in
\* or out of reach as it was at startup: /init and /invoke up to its readiness
\* check.
StartupInit ==
  /\ ServerInit
  /\ ALLOWED_CLIENT_IDS = {}
  /\ AUTH_TOKEN = ""
  /\ AccessIdle
  /\ worker = IdleWorker
  /\ peer = IdlePeer
  /\ variants = IdleVariants
  /\ startup \in StartupConfigs
  /\ readyStore = createReadyStore(startup)
  /\ codec = IdleCodec

StartupNext ==
  \/ \E i \in InitCalls, clientId \in Workers \cup {Missing} :
       handleInit_check(i, clientId)
  \/ \E i \in InitCalls, outcome \in {"ok", "error"} :
       handleInit_setReady(i, outcome)
  \/ \E k \in InvokeCalls, clientId \in Workers \cup {Missing}, hasPath \in BOOLEAN :
       handleInvoke_params(k, clientId, hasPath)
  \/ \E k \in InvokeCalls, outcome \in {"ok", "error"} :
       handleInvoke_isReady(k, outcome)

StartupSpec == StartupInit /\ [][StartupNext]_vars

\* A worker's life as the server sees it: init announcements and disconnect
\* notices on /events, and /invoke up to its readiness check.
LifecycleNext ==
  \/ \E e \in EventCalls, req \in GateEventRequests \cup DisconnectNotices :
       handleEvents_receive(e, req)
  \/ \E e \in EventCalls : handleEvents_route(e)
  \/ \E e \in EventCalls, outcome \in {"ok", "error"} :
       handleEvents_setReady(e, outcome)
  \/ \E k \in InvokeCalls, clientId \in Workers :
       handleInvoke_params(k, clientId, TRUE)
  \/ \E k \in InvokeCalls, outcome \in {"ok", "error"} :
       handleInvoke_isReady(k, outcome)

LifecycleSpec == Init /\ [][LifecycleNext]_vars

\* Encoding and decoding of the envelopes.
CodecNext ==
  \/ \E e \in Envelopes : codec_stringify(e)
  \/ codec_parseJSON
  \/ \E e \in Envelopes : codec_parseJSON_object(e)

CodecSpec == Init /\ [][CodecNext]_vars

\* The two issuers of worker credentials: handleAuth and the handler of
\* makeAuthHandler.
IssuerNext ==
  \/ \E a \in AuthCalls, apiKey \in ApiKeys, clientId \in Workers \cup {Missing} :
       handleAuth_check(a, apiKey, clientId)
  \/ \E a \in AuthCalls, outcome \in {"url", "nourl", "reject"} :
       handleAuth_token(a, outcome)
  \/ \E a \in AuthCalls, clientId \in Workers \cup {Missing},
        outcome \in {"url", "nourl", "reject"} :
       authHandler(a, clientId, outcome)

IssuerSpec == AuthInit /\ [][IssuerNext]_vars

\* A worker's way to a request: /auth issues its credential, /init marks it
\* ready, /invoke publishes the envelope.
AddressSpec ==
  Init /\ [][\/ \E a \in AuthCalls, clientId \in Workers \cup {Missing} :
                  handleAuth_check(a, "", clientId)
             \/ \E a \in AuthCalls, outcome \in {"url", "nourl", "reject"} :
                  handleAuth_token(a, outcome)
             \/ \E i \in InitCalls, clientId \in Workers \cup {Missing} :
                  handleInit_check(i, clientId)
             \/ \E i \in InitCalls, outcome \in {"ok", "error"} :
                  handleInit_setReady(i, outcome)
             \/ \E k \in InvokeCalls, clientId \in Workers :
                  handleInvoke_params(k, clientId, TRUE)
             \/ \E k \in InvokeCalls, outcome \in {"ok", "error"} :
                  handleInvoke_isReady(k, outcome)
             \/ \E k \in InvokeCalls : handleInvoke_dispatch(k)]_vars

\* The worker started through start() and the bridge: the worker connects
\* and announces itself, other clients announce w2 with a well-formed init
\* message, /invoke runs up to its readiness check.
ConnectSpec ==
  Init /\ [][\/ worker_connected
             \/ \E e \in EventCalls,
                   ceType \in {"azure.webpubsub.user.init", UserMessage},
                   enc \in {"json", "quoted"} : sendEvent(e, ceType, enc)
             \/ \E e \in EventCalls,
                   req \in { x \in GateEventRequests :
                               parseJSON(x.raw).clientId = "w2" } :
                  handleEvents_receive(e, req)
             \/ \E e \in EventCalls : handleEvents_route(e)
             \/ \E e \in EventCalls, outcome \in {"ok", "error"} :
                  handleEvents_setReady(e, outcome)
             \/ \E k \in InvokeCalls, clientId \in Workers :
                  handleInvoke_params(k, clientId, TRUE)
             \/ \E k \in InvokeCalls, outcome \in {"ok", "error"} :
                  handleInvoke_isReady(k, outcome)]_vars

\* The response envelopes for the requestId of A's call and for that of B's
\* call, each labelled with either response hub.
InstanceResponses ==
  { EventReq(UserMessage, hub, "",
             Raw("json", ResponseObj(rid, TRUE, 200, TRUE, BodyHello))) :
      rid \in {1, MaxCalls + 1}, hub \in {RESPONSE_HUB, OtherResponseHub} }

\* Two bridge instances, one /invoke call for w1 on each, with events that
\* reach the instance that does not hold the entry: A is handed the init
\* announcements and the responses that are not both for its own requestId
\* and on its own hub; B is handed every response.  Scheduling as in
\* FairSpec.
InstancesSpec ==
  /\ SharedInit
  /\ [][\/ \E k \in {1} : handleInvoke_params(k, "w1", TRUE)
        \/ \E k \in {1}, outcome \in {"ok", "error"} :
             handleInvoke_isReady(k, outcome)
        \/ \E k \in {1} : handleInvoke_dispatch(k)
        \/ \E k \in {1}, ok \in BOOLEAN : handleInvoke_published(k, ok)
        \/ \E k \in {1} : handleInvoke_response(k)
        \/ \E r \in {1} : timerFires(r)
        \/ \E e \in EventCalls,
              req \in { x \in GateEventRequests \cup InstanceResponses :
                          \/ x.ceHub = SYSTEM_HUB /\ parseJSON(x.raw).clientId = "w1"
                          \/ x.ceHub = OtherResponseHub
                          \/ /\ x.ceHub = RESPONSE_HUB
                             /\ parseJSON(x.raw).requestId \notin InvokeCalls } :
             handleEvents_receive(e, req)
        \/ \E e \in EventCalls : handleEvents_route(e)
        \/ \E e \in EventCalls, outcome \in {"ok", "error"} :
             handleEvents_setReady(e, outcome)
        \/ peer_handleInvoke_params("w1", TRUE)
        \/ \E outcome \in {"ok", "error"} : peer_handleInvoke_isReady(outcome)
        \/ peer_handleInvoke_dispatch
        \/ \E req \in InstanceResponses : peer_handleEvents(req)]_vars
  /\ WF_vars(handleInvoke_response(1))
  /\ WF_vars(timerFires(1))

-----------------------------------------------------------------------------
(* Properties of the pending correlation table *)

\* C1: every requestId that invoke registered is settled at most once.  Its
\* resolve and reject functions are called at most once between them, its
\* entry is deleted at most once, a resolved promise was resolved by the
\* response path alone (which deleted the entry and cancelled the timer) and
\* a rejected promise by the timer alone (which fired and deleted the entry):
\* never both.
C1_SettledAtMostOnce ==
  \A r \in InvokeCalls :
    /\ Len(settleLog[r]) <= 1
    /\ Len(removeLog[r]) <= 1
    /\ promise[r].state = "resolved" =>
         /\ settleLog[r] = <<"resolve">>
         /\ removeLog[r] = <<"resolve">>
         /\ timer[r].state = "cleared"
    /\ promise[r].state = "rejected" =>
         /\ settleLog[r] = <<"reject">>
         /\ removeLog[r] = <<"timeout">>
         /\ timer[r].state = "fired"
    /\ settleLog[r] # <<>> => promise[r].state \in {"resolved", "rejected"}
    /\ (\E i \in 1..Len(removeLog[r]) : removeLog[r][i] \in {"resolve", "timeout"})
         => promise[r].state \in {"resolved", "rejected"}

\* Both paths were taken for one requestId: the timer fired first and the
\* response that came after it found no entry.
C1_Witness ==
  \E r \in InvokeCalls, e \in EventCalls :
    /\ promise[r].state = "rejected"
    /\ ev[e].pc = "done"
    /\ ev[e].log.msg = "no pending for requestId"
    /\ ev[e].log.requestId = r

\* C2: every promise awaitResponse returned is settled in the end.  As a
\* property a finite run refutes: a promise that is still pending has its
\* entry in the map and its timer armed, so that the timer will settle it if
\* no response does.
C2_UnsettledHasArmedTimer ==
  \A r \in InvokeCalls :
    promise[r].state = "pending" => r \in pending /\ timer[r].state = "armed"

C4_TimeoutAnswers504 ==
  /\ [](\A k \in InvokeCalls :
          timer[uuidv4(k)].state = "fired" =>
            /\ uuidv4(k) \notin pending
            /\ promise[uuidv4(k)].state = "rejected"
            /\ call[k].publish = "ok" =>
                 \/ /\ call[k].pc = "done"
                    /\ call[k].status = 504
                    /\ call[k].body = ErrTimeout
                 \/ /\ call[k].pc = "response"
                    /\ ENABLED handleInvoke_response(k))
  /\ \A k \in InvokeCalls :
       (call[k].publish = "ok" /\ timer[uuidv4(k)].state = "fired")
         ~> (call[k].pc = "done" /\ call[k].status = 504 /\ call[k].body = ErrTimeout)

\* A call whose publish succeeded has answered 504 after its timer fired.
C4_Witness ==
  \E k \in InvokeCalls :
    /\ call[k].pc = "done" /\ call[k].publish = "ok"
    /\ call[k].status = 504 /\ call[k].body = ErrTimeout
    /\ timer[uuidv4(k)].state = "fired"
    /\ removeLog[uuidv4(k)] = <<"timeout">>

-----------------------------------------------------------------------------
(* Properties of the request gateway *)

\* C5: an invoke whose readiness check returned false is answered 409, has
\* registered no entry (no timer, no promise, no key in the map) and has
\* published nothing; and whatever an invoke published or registered, it did
\* after its readiness check returned true.
C5_NotReadyNeverPublishes ==
  \A k \in InvokeCalls :
    /\ (call[k].pc \notin {"idle", "isReady"} /\ ~call[k].ready
          /\ call[k].status \notin {400, 500}) =>
         /\ call[k].pc = "done"
         /\ call[k].status = 409
         /\ call[k].body = ErrNotReady
    /\ ~call[k].ready =>
         /\ sent[k] = <<>>
         /\ uuidv4(k) \notin pending
         /\ timer[uuidv4(k)] = NoTimer
         /\ promise[uuidv4(k)] = NoPromise
    /\ call[k].status = 409 => ~call[k].ready

\* One call was answered 409 for a worker that is not ready while another
\* call, for a ready worker, has published its envelope.
C5_Witness ==
  \E k \in InvokeCalls, j \in InvokeCalls :
    /\ call[k].pc = "done" /\ call[k].status = 409 /\ ~isReady(call[k].clientId)
    /\ sent[k] = <<>>
    /\ Len(sent[j]) = 1 /\ isReady(call[j].clientId)

\* C6: a call whose publish failed has answered 502 (not 504), its entry is
\* not in the pending map and its timer is not armed, so the timer cannot fire
\* after the 502; if the entry was still there when the publish failed, the
\* failure path is the one that removed it and cancelled the timer.
C6_PublishFailureCleansUp ==
  \A k \in InvokeCalls :
    call[k].publish = "failed" =>
      /\ call[k].pc = "done"
      /\ call[k].status = 502
      /\ call[k].body = ErrPublish
      /\ uuidv4(k) \notin pending
      /\ timer[uuidv4(k)].state \in {"cleared", "fired"}
      /\ Len(removeLog[uuidv4(k)]) = 1
      /\ removeLog[uuidv4(k)] = <<"publishFailed">> =>
           /\ timer[uuidv4(k)].state = "cleared"
           /\ promise[uuidv4(k)].state = "pending"

\* A call answered 502 after the failure path removed its entry and
\* cancelled its timer.
C6_Witness ==
  \E k \in InvokeCalls :
    /\ call[k].pc = "done" /\ call[k].status = 502
    /\ removeLog[uuidv4(k)] = <<"publishFailed">>
    /\ timer[uuidv4(k)].state = "cleared"

-----------------------------------------------------------------------------
(* Properties of the event router *)

\* C7: resolving is idempotent.  A step of handleEvents that handles a
\* response envelope for a requestId whose promise is already resolved finds
\* no entry and changes nothing: not the pending map, the timers, the
\* promises (so not the result the caller got), the calls of resolve and
\* reject, nor any /invoke call.
C7_DuplicateResponseIsNoOp ==
  [][\A e \in EventCalls :
       LET req == ev[e].req
           data == parseJSON(req.raw)
       IN (/\ ev[e].pc = "text" /\ ev'[e].pc # "text"
           /\ req.ceType = UserMessage /\ hubOf(req) = RESPONSE_HUB
           /\ isResponse(data)
           /\ data.requestId \in InvokeCalls
           /\ promise[data.requestId].state = "resolved")
          => /\ ev'[e].pc = "done"
             /\ ev'[e].log.msg = "no pending for requestId"
             /\ UNCHANGED <<pending, timer, promise, settleLog, removeLog,
                            resolvedBy, call, sent>>]_vars

\* A response envelope was dropped for a requestId that an earlier envelope
\* had resolved.
C7_Witness ==
  \E e \in EventCalls, r \in InvokeCalls :
    /\ ev[e].pc = "done"
    /\ ev[e].log.msg = "no pending for requestId"
    /\ ev[e].log.requestId = r
    /\ promise[r].state = "resolved"

\* C8: a step of handleEvents that handles a response envelope whose
\* requestId is not a key of the pending map answers 200 and leaves the
\* pending map, every timer, every promise and the readiness stores as they
\* were.
C8_UnknownResponseIsDropped ==
  [][\A e \in EventCalls :
       LET req == ev[e].req
           data == parseJSON(req.raw)
       IN (/\ ev[e].pc = "text" /\ ev'[e].pc # "text"
           /\ req.ceType = UserMessage /\ hubOf(req) = RESPONSE_HUB
           /\ isResponse(data)
           /\ data.requestId \notin pending)
          => /\ ev'[e].pc = "done"
             /\ ev'[e].status = 200
             /\ UNCHANGED <<pending, timer, promise, settleLog, removeLog,
                            resolvedBy, mem, redisKeys, readyStore>>]_vars

\* A response envelope with an id that no invoke drew was dropped while the
\* entry of another requestId is pending with its timer armed.
C8_Witness ==
  \E e \in EventCalls, r \in InvokeCalls :
    /\ ev[e].pc = "done"
    /\ ev[e].log.msg = "no pending for requestId"
    /\ ev[e].log.requestId = 0
    /\ r \in pending /\ timer[r].state = "armed"

\* C9: every /events call that has returned answered 200 with an empty body,
\* and a call that has not returned can always take its next step: no event
\* type, hub, payload or store failure makes the handler throw.
C9_EventsAlwaysAck200 ==
  \A e \in EventCalls :
    /\ ev[e].pc = "done" => ev[e].status = 200 /\ ev[e].body = BodyNone
    /\ ev[e].pc = "text" => ENABLED handleEvents_route(e)
    /\ ev[e].pc = "store" =>
         \A outcome \in StoreOutcomes : ENABLED handleEvents_setReady(e, outcome)

\* The readiness store failed while an init event was handled, and the call
\* has returned.
C9_Witness ==
  \E e \in EventCalls :
    /\ ev[e].pc = "done"
    /\ ev[e].log.msg = "failed to process system payload"
    /\ readyStore = "redis"

C11_OtherEventsChangeNothing ==
  [][\A e \in EventCalls :
       LET req == ev[e].req
           data == parseJSON(req.raw)
           response == /\ req.ceType = UserMessage /\ hubOf(req) = RESPONSE_HUB
                       /\ data.shape = "object" /\ data.type = "response"
                       /\ data.requestIdIsString
           announce == /\ req.ceType = UserMessage /\ hubOf(req) = SYSTEM_HUB
                       /\ data.shape = "object" /\ data.type = "init"
                       /\ data.clientIdIsString
       IN (ev[e].pc = "text" /\ ev'[e].pc # "text" /\ ~response /\ ~announce)
          => /\ ev'[e].pc = "done"
             /\ ev'[e].status = 200 /\ ev'[e].body = BodyNone
             /\ UNCHANGED <<pending, timer, promise, settleLog, removeLog,
                            resolvedBy, readyStore, mem, redisKeys, call,
                            sent>>]_vars

\* A payload that is no response envelope was dropped on the response hub
\* while an entry is pending and a worker is ready.
C11_Witness ==
  \E e \in EventCalls, r \in InvokeCalls, w \in Workers :
    /\ ev[e].pc = "done"
    /\ ev[e].log.msg = "non-response payload or missing requestId on response hub"
    /\ r \in pending /\ timer[r].state = "armed"
    /\ isReady(w)

\* C12: an invoke hands at most one envelope to publish, and only after it
\* registered the entry whose requestId the envelope carries; an invoke that
\* answered with the worker's response (its publish succeeded and a response
\* envelope resolved its entry) published exactly one envelope, addressed to
\* the clientId it was called with and carrying the requestId it registered.
C12_OnePublishPerInvoke ==
  \A k \in InvokeCalls :
    /\ Len(sent[k]) <= 1
    /\ \A i \in 1..Len(sent[k]) :
         /\ sent[k][i].requestId = call[k].requestId
         /\ sent[k][i].to = call[k].clientId
         /\ timer[sent[k][i].requestId] # NoTimer
    /\ (/\ call[k].pc = "done" /\ call[k].publish = "ok"
        /\ promise[uuidv4(k)].state = "resolved") =>
         /\ Len(sent[k]) = 1
         /\ sent[k][1].requestId = uuidv4(k)
         /\ resolvedBy[uuidv4(k)].requestId = sent[k][1].requestId

\* An invoke has answered with the worker's response after publishing one
\* envelope, and another invoke has published its own.
C12_Witness ==
  \E k \in InvokeCalls, j \in InvokeCalls :
    /\ k # j
    /\ call[k].pc = "done" /\ call[k].publish = "ok"
    /\ promise[uuidv4(k)].state = "resolved"
    /\ Len(sent[k]) = 1
    /\ Len(sent[j]) = 1 /\ sent[j][1].requestId # sent[k][1].requestId

\* C13: an invoke with the clientId or the path missing is answered 400 by
\* the step that read the parameters: it never waits for the readiness store,
\* registers no entry (no key in the map, no timer, no promise) and hands
\* nothing to publish.
C13_MissingParamsAnswered400 ==
  \A k \in InvokeCalls :
    (call[k].pc # "idle" /\ (call[k].clientId = Missing \/ ~call[k].hasPath)) =>
      /\ call[k].pc = "done"
      /\ call[k].status = 400
      /\ call[k].body = ErrMissingParams
      /\ sent[k] = <<>>
      /\ uuidv4(k) \notin pending
      /\ timer[uuidv4(k)] = NoTimer
      /\ promise[uuidv4(k)] = NoPromise

\* An invoke without a path was answered 400 although the worker it names is
\* ready.
C13_Witness ==
  \E k \in InvokeCalls :
    /\ call[k].pc = "done" /\ call[k].status = 400
    /\ call[k].clientId \in Workers /\ ~call[k].hasPath
    /\ isReady(call[k].clientId)

-----------------------------------------------------------------------------
(* Properties of the access layer *)

\* C16: an /auth call that has returned answered 401 when an API key is
\* configured and the x-api-key header differs from it; past the key check,
\* it answered 403 when the allow-list is not empty and does not hold the
\* clientId of the body; with no key configured and an empty allow-list every
\* clientId passes both checks and is issued a credential for the userId
\* client:<clientId> whenever the token service returns a url (the answer is
\* 502 when it does not); and a credential is issued only with the answer
\* 200, to a caller that passed the key check, for a clientId that is in the
\* allow-list or under an empty allow-list.
C16_AuthChecksKeyAndAllowList ==
  \A a \in AuthCalls :
    LET c == auth[a]
        keyOk == AUTH_TOKEN = "" \/ c.key = AUTH_TOKEN
        open == AUTH_TOKEN = "" /\ ALLOWED_CLIENT_IDS = {}
    IN /\ c.pc = "done" =>
            /\ ~keyOk => c.status = 401 /\ c.body = ErrUnauthorized
            /\ (/\ keyOk /\ c.clientId # Missing /\ ALLOWED_CLIENT_IDS # {}
                /\ c.clientId \notin ALLOWED_CLIENT_IDS)
                 => c.status = 403 /\ c.body = ErrForbidden
            /\ (open /\ c.clientId # Missing) => c.status \in {200, 502}
            /\ c.status = 200 <=> c.credential # NoCredential
       /\ (c.pc = "token" /\ open) => ENABLED handleAuth_token(a, "url")
       /\ (c.pc # "idle" /\ open /\ c.clientId # Missing) =>
            c.pc = "token" \/ c.status \in {200, 502}
       /\ c.credential # NoCredential =>
            /\ c.pc = "done" /\ keyOk
            /\ c.clientId \in Workers
            /\ ALLOWED_CLIENT_IDS = {} \/ c.clientId \in ALLOWED_CLIENT_IDS
            /\ c.credential.hub = SYSTEM_HUB
            /\ c.credential.userId = userIdOf(c.clientId)

\* With an API key and an allow-list configured, a caller that sent the key
\* was issued a credential for a clientId of the list.
C16_Witness ==
  \E a \in AuthCalls :
    /\ AUTH_TOKEN # "" /\ ALLOWED_CLIENT_IDS = {"w1"}
    /\ auth[a].pc = "done" /\ auth[a].status = 200
    /\ auth[a].key = AUTH_TOKEN
    /\ auth[a].credential.userId = "client:w1"

\* C17: under a non-empty allow-list a clientId outside it is never ready,
\* and every /invoke for it that got past the parameter check is answered 409
\* (500 if the readiness store could not be read).
C17_DisallowedWorkerNeverReady ==
  ALLOWED_CLIENT_IDS # {} =>
    \A w \in Workers \ ALLOWED_CLIENT_IDS :
      /\ ~isReady(w)
      /\ \A k \in InvokeCalls :
           (/\ call[k].clientId = w /\ call[k].hasPath
            /\ call[k].pc \notin {"idle", "isReady"})
             => call[k].pc = "done" /\ call[k].status \in {409, 500}

\* C18: a /init call that has returned answered 400 when the body names no
\* clientId, 403 when the clientId is outside a non-empty allow-list, and
\* otherwise 200 {"ok":true} with the clientId ready.
C18_InitAnswers200Or400Or403 ==
  \A i \in InitCalls :
    init[i].pc = "done" =>
      IF init[i].clientId = Missing
      THEN init[i].status = 400 /\ init[i].body = ErrClientIdRequired
      ELSE IF ALLOWED_CLIENT_IDS # {} /\ init[i].clientId \notin ALLOWED_CLIENT_IDS
           THEN init[i].status = 403 /\ init[i].body = ErrForbidden
           ELSE /\ init[i].status = 200 /\ init[i].body = BodyOk
                /\ isReady(init[i].clientId)

-----------------------------------------------------------------------------
(* Properties of the remote forwarder *)

\* C14: a handler of the worker that has returned from a data message whose
\* payload is a request envelope sent exactly one response envelope with the
\* requestId of the request, with status 500 and a diagnostic body when the
\* local call failed; a handler that returned from any other message sent
\* nothing.
C14_OneResponsePerRequest ==
  \A j \in WorkerCalls :
    LET h == worker.on[j]
    IN h.pc = "done" =>
         IF h.frame.kind = "message" /\ h.frame.payload.type = "request"
         THEN /\ Len(h.out) = 1
              /\ h.out[1].type = "response"
              /\ h.out[1].requestId = h.frame.payload.requestId
              /\ h.local.kind = "error" =>
                   h.out[1].status = 500 /\ h.out[1].body = ErrLocal
         ELSE h.out = <<>>

\* C15: every request envelope delivered to a handler of the worker is
\* eventually followed by a response envelope sent by that handler.
C15_RequestIsEventuallyAnswered ==
  \A j \in WorkerCalls :
    (/\ worker.on[j].pc # "idle"
     /\ worker.on[j].frame.kind = "message"
     /\ worker.on[j].frame.payload.type = "request")
      ~> (Len(worker.on[j].out) = 1)

-----------------------------------------------------------------------------
(* Properties of the readiness registry *)

\* C19: when instance A and instance B both use the Redis store, a worker
\* for which a /init call of A has answered 200, or for which A's handling of
\* an init announcement has marked it ready, is ready on B: B's isReady(w)
\* is true, and a readiness check of B's /invoke for w that returns does not
\* answer 409 but lets the call go on.
C19_SharedStoreInitVisibleToPeer ==
  [][LET shared == readyStore = "redis" /\ peer.store = "redis"
         markedByA(w) ==
           \/ \E i \in InitCalls :
                /\ init[i].pc = "done" /\ init[i].status = 200
                /\ init[i].clientId = w
           \/ \E e \in EventCalls :
                /\ ev[e].pc = "done" /\ ev[e].log.clientId = w
                /\ ev[e].log.msg = "client init received; marked ready"
     IN shared =>
          \A w \in Workers :
            /\ markedByA(w)' => peerIsReady(w)'
            /\ (/\ markedByA(w)
                /\ peer.call.pc = "isReady" /\ peer.call.clientId = w
                /\ peer'.call.pc # "isReady")
                 => /\ peer'.call.status # 409
                    /\ peer'.call.status # 500 =>
                         peer'.call.pc = "body" /\ peer'.call.ready]_vars

\* Both instances use the Redis store; A's /init for a worker answered 200
\* and B's /invoke for that worker passed its readiness check.
C19_Witness ==
  \E i \in InitCalls :
    /\ readyStore = "redis" /\ peer.store = "redis"
    /\ init[i].pc = "done" /\ init[i].status = 200
    /\ peer.call.clientId = init[i].clientId
    /\ peer.call.pc = "body" /\ peer.call.ready

C21_UnreachableStoreFailsOver ==
  (/\ startup.READY_STORE = "redis" /\ startup.REDIS_URL # ""
   /\ startup.reachable = "no")
    => /\ \A i \in InitCalls :
            (init[i].pc = "done" /\ init[i].clientId # Missing)
              => init[i].status = 200 /\ init[i].clientId \in mem
       /\ \A k \in InvokeCalls :
            call[k].pc = "done" => call[k].status \in {400, 409}

\* C22: when handleEvents has handled a disconnect notice for a worker, that
\* worker's readiness record is cleared: isReady is false for it, so the
\* readiness check of a later /invoke for it answers 409.
C22_DisconnectClearsReadiness ==
  [][\A e \in EventCalls, w \in Workers :
       (/\ ev[e].pc = "text"
        /\ ev[e].req \in DisconnectNotices
        /\ parseJSON(ev[e].req.raw).clientId = w
        /\ ev'[e].pc = "done")
         => ~isReady(w)']_vars

-----------------------------------------------------------------------------
(* Properties of the error mapping *)

\* C23: every /invoke that has returned either answers with what a response
\* envelope resolved its entry with, or answers 400, 409, 502 or 504 with
\* the JSON error body of that status; no failure of the readiness store,
\* of the publish or of the timer reaches the caller as anything else.
C23_InvokeFailuresAreMapped ==
  \A k \in InvokeCalls :
    call[k].pc = "done" =>
      \/ /\ promise[uuidv4(k)].state = "resolved"
         /\ call[k].publish = "ok"
         /\ call[k].status = promise[uuidv4(k)].status
      \/ call[k].status = 400 /\ call[k].body = ErrMissingParams
      \/ call[k].status = 409 /\ call[k].body = ErrNotReady
      \/ call[k].status = 502 /\ call[k].body = ErrPublish
      \/ call[k].status = 504 /\ call[k].body = ErrTimeout

\* C24: the deadline /invoke arms for each pending entry is 10 seconds: every
\* timer awaitResponse has armed was armed with a delay of 10 * 1000 ms.
C24_DeadlineIsTenSeconds ==
  \A r \in InvokeCalls :
    timer[r].state # "none" => timer[r].ms = 10 * 1000

-----------------------------------------------------------------------------
(* Properties of the envelope encoding *)

\* C25: for every request or response envelope e, parseJSON applied to the
\* text JSON.stringify(e) produced gives a value equal to e, and parseJSON
\* applied to e itself returns e.
C25_EnvelopeRoundTrip ==
  /\ codec.pc = "decoded" => codec.decoded = codec.e
  /\ codec.pc = "passed" => codec.decoded = codec.e

\* A request envelope whose path holds quotes and whose body is a string
\* holding quotes and a backslash was encoded and decoded to itself.
C25_Witness ==
  /\ codec.pc = "decoded"
  /\ codec.decoded = codec.e
  /\ codec.e.f[1].v = JStr(<<"request">>)
  /\ \E i \in 1..Len(codec.e.f[4].v.s) : codec.e.f[4].v.s[i] = Quote
  /\ \E i \in 1..Len(codec.e.f[5].v.s) : codec.e.f[5].v.s[i] = Backslash
  /\ \E i \in 1..Len(codec.text) - 1 :
       codec.text[i] = Backslash /\ codec.text[i + 1] = Backslash

-----------------------------------------------------------------------------
(* Properties of the issued credentials *)

\* C26: every credential /auth has issued to a worker grants no more than
\* joining the worker's own channel and sending to the response channel,
\* and expires: its lifetime is between a minute and an hour.
C26_CredentialIsMinimalAndExpires ==
  \A a \in AuthCalls :
    LET c == auth[a].credential
        minimal == { [role |-> "webpubsub.joinLeaveGroup",
                      group |-> auth[a].clientId],
                     [role |-> "webpubsub.sendToGroup", group |-> RESPONSE_HUB] }
    IN c # NoCredential =>
         /\ c.roles \subseteq minimal
         /\ c.expirationTimeInMinutes \in 1..60

-----------------------------------------------------------------------------
(* Properties of the pending entries and their timers *)

\* C27: the pending table never holds more than one entry per requestId:
\* every key of the table belongs to exactly one call that is waiting (for
\* its publish or for its response) and to one armed timer; and the step in
\* which an invoke registers its entry finds its requestId absent from the
\* table and leaves it present.
C27_OneEntryPerRequestId ==
  [][/\ \A r \in pending' :
          /\ Cardinality({ k \in InvokeCalls :
                             /\ call'[k].requestId = r
                             /\ call'[k].pc \in {"publish", "response"} }) = 1
          /\ timer'[r].state = "armed"
     /\ \A k \in InvokeCalls :
          (call[k].pc = "body" /\ call'[k].pc = "publish")
            => /\ call'[k].requestId \notin pending
               /\ call'[k].requestId \in pending']_vars

\* Two calls wait at once, each with its own entry and its own armed timer.
C27_Witness ==
  /\ Cardinality(pending) = 2
  /\ \A k \in InvokeCalls :
       /\ call[k].pc \in {"publish", "response"}
       /\ call[k].requestId \in pending
       /\ timer[call[k].requestId].state = "armed"
  /\ \A k \in InvokeCalls, j \in InvokeCalls :
       k # j => call[k].requestId # call[j].requestId

C29_PendingIffTimerArmed ==
  \A r \in InvokeCalls :
    /\ r \in pending <=> timer[r].state = "armed"
    /\ timer[r].state = "cleared" =>
         /\ removeLog[r] \in {<<"resolve">>, <<"publishFailed">>}
         /\ promise[r].state # "rejected"
         /\ settleLog[r] \in {<<>>, <<"resolve">>}
    /\ timer[r].state = "fired" => removeLog[r] = <<"timeout">>

\* One timer was cancelled by the publish-failure cleanup and its promise is
\* left pending for good, another was cancelled by a response, and their
\* entries are gone.
C29_Witness ==
  \E r \in InvokeCalls, q \in InvokeCalls :
    /\ timer[r].state = "cleared" /\ removeLog[r] = <<"publishFailed">>
    /\ promise[r].state = "pending"
    /\ timer[q].state = "cleared" /\ removeLog[q] = <<"resolve">>
    /\ pending = {}

\* C30: a call that has returned its HTTP response has no entry in the
\* pending table under the requestId it registered; once every call has
\* returned the table is empty.
C30_ReturnedCallLeavesNoEntry ==
  /\ \A k \in InvokeCalls :
       call[k].pc = "done" =>
         /\ call[k].requestId \notin pending
         /\ uuidv4(k) \notin pending
  /\ (\A k \in InvokeCalls : call[k].pc = "done") => pending = {}

\* Every call has returned, one with 502 after a failed publish and one with
\* 504 after its timer fired, and the table is empty.
C30_Witness ==
  /\ \A k \in InvokeCalls : call[k].pc = "done"
  /\ \E k \in InvokeCalls : call[k].status = 502
  /\ \E k \in InvokeCalls : call[k].status = 504
  /\ pending = {}

-----------------------------------------------------------------------------
(* Late responses, answers and addressing *)

\* C31: a response envelope handled after the timer of its requestId has
\* fired is dropped.  The step that handles it finds no entry, logs that,
\* and changes neither the pending map, the timers, the promises, the calls
\* of resolve and reject nor any /invoke call; after it the entry is still
\* out of the map, the promise is still rejected, and the call that waited
\* on it has answered 504 or will when its continuation runs.
C31_LateResponseIsDropped ==
  [][\A e \in EventCalls :
       LET req == ev[e].req
           data == parseJSON(req.raw)
           r == data.requestId
       IN (/\ ev[e].pc = "text" /\ ev'[e].pc # "text"
           /\ req.ceType = UserMessage /\ hubOf(req) = RESPONSE_HUB
           /\ isResponse(data)
           /\ r \in InvokeCalls
           /\ timer[r].state = "fired")
          => /\ ev'[e].pc = "done"
             /\ ev'[e].log.msg = "no pending for requestId"
             /\ UNCHANGED <<pending, timer, promise, settleLog, removeLog,
                            resolvedBy, call, sent>>
             /\ r \notin pending'
             /\ promise'[r].state = "rejected"
             /\ resolvedBy'[r] = NullValue
             /\ \A k \in InvokeCalls :
                  (uuidv4(k) = r /\ call'[k].publish = "ok") =>
                    /\ call'[k].pc \in {"response", "done"}
                    /\ answer(call'[k], promise'[r]).status = 504
                    /\ call'[k].pc = "done" =>
                         call'[k].status = 504 /\ call'[k].body = ErrTimeout]_vars

\* A call answered 504 after its timer fired, and the response envelope for
\* its requestId that was handled after that was dropped.
C31_Witness ==
  \E k \in InvokeCalls, e \in EventCalls :
    /\ call[k].pc = "done" /\ call[k].status = 504
    /\ timer[uuidv4(k)].state = "fired"
    /\ uuidv4(k) \notin pending
    /\ ev[e].pc = "done"
    /\ ev[e].log.msg = "no pending for requestId"
    /\ ev[e].log.requestId = uuidv4(k)

\* C32: a call that has answered after a response envelope resolved its entry
\* answers with the envelope's status when that is a number and with 200
\* when it is not, and with the envelope's body when the envelope has one and
\* with null when it has none.  (Read for the calls whose publish succeeded,
\* the ones that come to await the promise.)
C32_CallerReceivesStatusAndBody ==
  \A k \in InvokeCalls :
    LET env == resolvedBy[uuidv4(k)]
    IN (call[k].pc = "done" /\ call[k].publish = "ok" /\ env.shape = "object") =>
         /\ call[k].status = (IF env.statusIsNumber THEN env.status ELSE 200)
         /\ call[k].body = (IF env.hasBody THEN env.body ELSE BodyNull)

\* C33: the envelope of an invoke for worker w is sent to the user the
\* credential /auth issued for w names: for every envelope /invoke published
\* for clientId w and every credential /auth issued for clientId w, the
\* user publish addresses is the userId of the credential.
C33_PublishAddressesCredentialIdentity ==
  \A k \in InvokeCalls, a \in AuthCalls :
    \A i \in 1..Len(sent[k]) :
      (/\ auth[a].pc = "done" /\ auth[a].status = 200
       /\ auth[a].clientId = call[k].clientId)
      => /\ auth[a].credential.hub = SYSTEM_HUB
         /\ sent[k][i].to = auth[a].credential.userId

\* C34: the announcement the worker sends when its connection is established
\* is recognised by handleEvents and marks the worker ready.  Every step in
\* which handleEvents finishes with the worker's announcement leaves the
\* worker marked ready (or has logged that the store failed), so that an
\* invoke whose readiness check runs after it is not answered 409.
C34_AnnouncementMarksReady ==
  [][\A e \in EventCalls :
       LET data == ev[e].req.raw.val
       IN (/\ ev[e].pc \in {"text", "store"} /\ ev'[e].pc = "done"
           /\ worker.conn = "connected"
           /\ data.clientIdIsString /\ data.clientId = "w1")
          => \/ isReady(data.clientId)'
             \/ ev'[e].log.msg = "failed to process system payload"]_vars

-----------------------------------------------------------------------------
(* Several bridge instances *)

C36_StatusTellsNeverSentFromNoAnswer ==
  \A k \in InvokeCalls :
    call[k].pc = "done" =>
      /\ call[k].status = 502 <=> call[k].publish = "failed"
      /\ call[k].status = 504 =>
           /\ call[k].publish = "ok"
           /\ timer[call[k].requestId].state = "fired"
           /\ removeLog[call[k].requestId] = <<"timeout">>
           /\ promise[call[k].requestId].state = "rejected"
           /\ resolvedBy[call[k].requestId] = NullValue

=============================================================================
